---- MODULE Spec2Model ----
(***************************************************************************)
(* Freya v2.0: the request/response correlation built on the Redis         *)
(* message bus (MessageBus, LLMEngine._execute_tool_call,                  *)
(* TTSService._call_mcp_tool, MCPGateway._handle_tool_execution) and the   *)
(* circuit breaker (CircuitBreaker).                                       *)
(*                                                                         *)
(* Spec      the bus, the two correlated callers and the gateway.          *)
(* CBSpec    one CircuitBreaker used through protect() by concurrent calls.*)
(* RetrySpec one call of a retry_with_backoff / retry_sync wrapper.        *)
(* GwSpec    the life of MCPGateway: start, requests, stop, restart.       *)
(* ConnSpec  one MCPServerConnection: connect, discover_tools, disconnect.*)
(* BusSpec   the listener loop of MessageBus.start with publish, subscribe *)
(*           and stop; FairBusSpec adds the scheduling of the listener.    *)
(* TurnSpec  one user turn of LLMEngine after another; FairTurnSpec adds   *)
(*           that every await of a turn completes.                         *)
(***************************************************************************)
EXTENDS Integers, Sequences, FiniteSets, TLC

\* ------------------------------------------------------------------ bounds
\* Correlated calls (LLM tool calls and TTS tool calls together) per run.
MaxCalls == 2
\* Last value of the clock `now`.
MaxTime == 3
\* Clock ticks that make up the 30.0 s a caller waits for a result
\* (llm_engine.py:632, tts_service.py:426).
TimeoutTicks == 2
\* Tool requests published to the gateway per run.
MaxRequests == 2
\* Calls of MCPGateway.start() per run.
MaxStarts == 2
\* Last value of the breaker's clock `cbNow`.
MaxCbTime == 5
\* Clock ticks that make up recovery_timeout.
RecoveryTicks == 2
\* Calls suspended in the wrapped operation at once.
MaxInFlight == 2
\* Largest max_retries a retry wrapper is configured with.
MaxRetriesBound == 3
\* Values random.random() takes: k / RandomSteps for k in 0..RandomSteps-1.
RandomSteps == 4

\* Method calls made on one provider connection.
MaxConnCalls == 5

\* publish() calls and foreign messages on the bus; callbacks subscribed.
MaxBusMsgs == 2
MaxCallbacks == 3

\* Transcriptions handled; tool calls the model asks for in one reply.
MaxTurns == 2
MaxToolCalls == 2

\* max_tool_iterations = 5
MaxToolIterations == 5

\* ------------------------------------------------------ program constants
\* CircuitBreaker(failure_threshold=5, ...)
FailureThreshold == 5
\* `if self._success_count >= 2`
SuccessThreshold == 2

\* ---------------------------------------------------------------- channels
ExecuteCh == "mcp.tool.execute"
ResultCh == "mcp.tool.result"
ToolCallCh == "mcp.tool_call"
TranscriptionCh == "stt.transcription"
TtsGenerateCh == "tts.generate"

Calls == 1..MaxCalls

\* A key a message does not carry (dict.get returns its default for it).
Absent == <<"absent", 0>>
\* data.get("request_id", "unknown") in the gateway.
Unknown == <<"unknown", 0>>

\* str(uuid.uuid4()): a token no other call draws.
Uuid(c) == <<"uuid", c>>

\* f"tts_{int(time.time() * 1000)}": the clock reading, nothing else.
TtsRequestId(t) == <<"tts", t>>

\* A bus message. `src` is not on the wire: it names the call whose request
\* the message is (a request) or answers (a result); `result` is the
\* provider's payload for that request (0: None).
Msg(ch, rid, cid, tool, ok, res, src) ==
    [channel |-> ch, request_id |-> rid, call_id |-> cid, tool_name |-> tool,
     success |-> ok, result |-> res, src |-> src]

NoMsg == Msg("none", Absent, Absent, "", FALSE, 0, 0)

\* Bus callbacks: bound methods of the services, or a per-call closure.
Callback(kind, c) == [kind |-> kind, call |-> c]
GatewayCb == Callback("MCPGateway._handle_tool_execution", 0)
GuiExecuteCb == Callback("GUIService._handle_tool_execute", 0)
GuiResultCb == Callback("GUIService._handle_tool_result", 0)
TranscriptionCb == Callback("LLMEngine._handle_transcription", 0)
TtsRequestCb == Callback("TTSService._handle_tts_request", 0)
ResultHandler(c) == Callback("result_handler", c)

Range(s) == {s[i] : i \in DOMAIN s}

IdleCall ==
    [svc |-> "none", origin |-> "none", pc |-> "idle", rid |-> Absent,
     tool |-> "", t0 |-> 0, got |-> NoMsg, outcome |-> "none"]

VARIABLES
    now,                  \* the clock (time.time(), loop.time())
    busQueue,             \* messages Redis holds for pubsub.listen()
    subscribers,          \* MessageBus.subscribers: channel -> callbacks
    pubsubChannels,       \* channels the Redis pubsub connection is subscribed to
    listener,             \* MessageBus.start: idle, or awaiting a callback
    call,                 \* the correlated calls, by position
    pending_tool_results, \* LLMEngine._pending_tool_results
    tool_registry,        \* MCPGateway.tool_registry: tool name -> server
    connected,            \* servers whose MCPServerConnection.is_connected()
    gw,                   \* MCPGateway._handle_tool_execution, awaiting call_tool
    slowFor,              \* calls whose request met a provider that takes its time
    lateSeen              \* what the listener did with late results so far

VARIABLES
    cbState, failureCount, successCount, lastFailureTime, \* CircuitBreaker
    cbNow,                \* time.time() as the breaker reads it
    inFlight,             \* calls suspended in `await func(...)` in protect
    openedAt,             \* when the breaker last entered OPEN
    streak,               \* failures recorded since the last success / close
    lastEvent,            \* what the last step of the breaker did
    callSeq,              \* flips at every call made through the breaker
    guard                 \* how this breaker is used: "protect" or "engine"

VARIABLES
    cfg,                  \* the arguments of retry_with_backoff / retry_sync
    rPc,                  \* the retry wrapper: calling, sleeping, returned, raised
    attempt,              \* the loop variable `attempt`
    outcomes,             \* what each invocation of the operation did, in order
    delays,               \* the delays slept, in order
    onRetryCalls,         \* the attempt numbers on_retry was called with
    raised,               \* the exception the wrapper raised
    cause,                \* the __cause__ the wrapper gave that exception
    returned              \* the value the wrapper returned

VARIABLES
    servers,              \* MCPGateway.servers: the configured providers, in order
    serverTools,          \* MCPServerConnection.tools of each provider
    gwRunning,            \* MCPGateway._running
    gwHealthy,            \* MCPGateway._healthy
    gwHandlers,           \* _handle_tool_execution runs suspended in call_tool
    available_tools,      \* LLMEngine.available_tools
    engineRunning,        \* LLMEngine._running
    requested,            \* tool requests published to the gateway so far
    received,             \* requests that reached _handle_tool_execution
    finished,             \* requests whose handler run has returned
    published,            \* the results the gateway published, in order
    invoked,              \* the call_tool invocations made
    registryLog,          \* the registry the gateway published last, if any,
                          \* and whether the engine was started by then
    starts                \* calls of MCPGateway.start() so far

VARIABLES
    session,              \* MCPServerConnection.session: None or the n-th session
    isConnected,          \* MCPServerConnection._connected
    connTools,            \* MCPServerConnection.tools
    connCalls,            \* method calls made on the connection so far
    connOp,               \* the method called last
    connRaised            \* what that call raised, "none" if it returned

corrVars == <<now, busQueue, subscribers, pubsubChannels, listener, call,
              pending_tool_results, tool_registry, connected, gw, slowFor,
              lateSeen>>
cbVars == <<cbState, failureCount, successCount, lastFailureTime, cbNow,
            inFlight, openedAt, streak, lastEvent, callSeq, guard>>
retryVars == <<cfg, rPc, attempt, outcomes, delays, onRetryCalls, raised,
               cause, returned>>
gwVars == <<servers, serverTools, gwRunning, gwHealthy, gwHandlers,
            available_tools, engineRunning, requested, received, finished,
            published, invoked, registryLog, starts>>
VARIABLES
    gwWarnings            \* what the last _discover_all_tools logged as warnings

VARIABLES
    bRunning,             \* MessageBus._running
    bHealthy,             \* MessageBus._connection_healthy
    bSubscribers,         \* MessageBus.subscribers: channel -> callbacks
    bPending,             \* what pubsub.listen() has still to yield, in order
    bLoop,                \* where the coroutine of MessageBus.start() is
    bInvoked,             \* the callback invocations made, in order
    bSent,                \* publish() calls and foreign messages so far
    bStopped,             \* stop() was called on the running bus
    bRaised               \* the publish() calls so far, the fault the last one
                          \* met and what it raised ("none": it returned)

VARIABLES
    tPc,                  \* where _handle_transcription is in the current turn
    iteration,            \* the loop variable `iteration` of _generate_response
    tAttempt,             \* the retry wrapper's `attempt` in the current model call
    toolsLeft,            \* tool calls of this iteration still to execute
    modelCalls,           \* calls of _call_ollama_with_retry in this turn
    chatCalls,            \* calls of client.chat in this turn
    toolMsgs,             \* the "tool" messages appended in this turn: how many
                          \* carry a result and how many an error
    tResponses,           \* what this turn published on "llm.response", in order
    tRaised,              \* the exception the handler let out, "none" if it returned
    tText,                \* data["text"] of the transcription being handled
    turns                 \* transcriptions handled so far

connVars == <<session, isConnected, connTools, connCalls, connOp, connRaised>>
turnVars == <<tPc, iteration, tAttempt, toolsLeft, modelCalls, chatCalls,
              toolMsgs, tResponses, tRaised, tText, turns>>
logVars == <<gwWarnings>>
busVars == <<bRunning, bHealthy, bSubscribers, bPending, bLoop, bInvoked,
             bSent, bStopped, bRaised>>
restVars == <<connVars, logVars, busVars, turnVars>>
vars == <<corrVars, cbVars, retryVars, gwVars, restVars>>

\* ------------------------------------------------------------ MessageBus

\* redis.publish: Redis hands the message to the pubsub connection only
\* if that connection is subscribed to the channel.
Publish(q, m) == IF m.channel \in pubsubChannels THEN Append(q, m) ELSE q

\* MessageBus.unsubscribe(channel): drops every callback of the channel.
Unsubscribe(subs, ch) ==
    [k \in (DOMAIN subs) \ {ch} |-> subs[k]]

\* pubsub.unsubscribe(channel), issued by MessageBus.unsubscribe.
PubsubUnsubscribe(chs, subs, ch) ==
    IF ch \in DOMAIN subs THEN chs \ {ch} ELSE chs

\* self.subscribers[channel].append(callback)
AppendCallback(subs, ch, cb) ==
    [subs EXCEPT ![ch] = Append(@, cb)]

\* self.subscribers[channel] = []
NewChannel(subs, ch) ==
    [k \in (DOMAIN subs) \cup {ch} |-> IF k = ch THEN <<>> ELSE subs[k]]

ListenerIdle == [st |-> "idle", call |-> 0]

\* The handler a call runs in returns: `await callback(data)` completes.
ListenerAfter(c) ==
    IF call[c].origin = "handler" THEN ListenerIdle ELSE listener

NumStarted == Cardinality({c \in Calls : call[c].pc # "idle"})
NumTriggers ==
    Cardinality({i \in DOMAIN busQueue :
                   busQueue[i].channel \in {TranscriptionCh, TtsGenerateCh}})
NextCall == CHOOSE c \in Calls : call[c].pc = "idle" /\
                \A d \in Calls : d < c => call[d].pc # "idle"

\* ------------------------------------------------------------- callers

ToolNames == {"text_to_speech", "get_weather"}

\* The tool the model asks for in a turn.
LlmTools == {"get_weather"}

\* LLMEngine._execute_tool_call up to its wait loop: call_id, publish on
\* "mcp.tool_call", start_time.
LLMBegin(c, origin, tool) ==
    /\ call' = [call EXCEPT ![c] =
                  [svc |-> "llm", origin |-> origin, pc |-> "polling",
                   rid |-> Uuid(c), tool |-> tool, t0 |-> now,
                   got |-> NoMsg, outcome |-> "none"]]
    /\ busQueue' = Publish(IF origin = "handler" THEN Tail(busQueue) ELSE busQueue,
                           Msg(ToolCallCh, Absent, Uuid(c), tool, FALSE, 0, c))

\* TTSService._call_mcp_tool up to `await self.message_bus.publish(...)`.
TTSBegin(c, origin) ==
    /\ call' = [call EXCEPT ![c] =
                  [svc |-> "tts", origin |-> origin, pc |-> "publishing",
                   rid |-> TtsRequestId(now), tool |-> "text_to_speech",
                   t0 |-> now, got |-> NoMsg, outcome |-> "none"]]
    /\ busQueue' = Publish(IF origin = "handler" THEN Tail(busQueue) ELSE busQueue,
                           Msg(ExecuteCh, TtsRequestId(now), Absent,
                               "text_to_speech", FALSE, 0, c))

\* A task other than the bus listener calls the engine's tool call.
StartDirectLLM ==
    /\ NumStarted + NumTriggers < MaxCalls
    /\ \E tool \in LlmTools : LLMBegin(NextCall, "direct", tool)
    /\ UNCHANGED <<now, subscribers, pubsubChannels, listener,
                   pending_tool_results, tool_registry, connected, gw>>
    /\ UNCHANGED <<slowFor, lateSeen>>
    /\ UNCHANGED <<cbVars, retryVars, gwVars>>
    /\ UNCHANGED restVars

\* A task other than the bus listener calls the TTS tool call.
StartDirectTTS ==
    /\ NumStarted + NumTriggers < MaxCalls
    /\ TTSBegin(NextCall, "direct")
    /\ UNCHANGED <<now, subscribers, pubsubChannels, listener,
                   pending_tool_results, tool_registry, connected, gw>>
    /\ UNCHANGED <<slowFor, lateSeen>>
    /\ UNCHANGED <<cbVars, retryVars, gwVars>>
    /\ UNCHANGED restVars

\* Another service publishes a transcription or a TTS request.
EnvPublish ==
    /\ NumStarted + NumTriggers < MaxCalls
    /\ \E ch \in {TranscriptionCh, TtsGenerateCh} :
         busQueue' = Publish(busQueue, Msg(ch, Absent, Absent, "", FALSE, 0, 0))
    /\ UNCHANGED <<now, subscribers, pubsubChannels, listener, call,
                   pending_tool_results, tool_registry, connected, gw>>
    /\ UNCHANGED <<slowFor, lateSeen>>
    /\ UNCHANGED <<cbVars, retryVars, gwVars>>
    /\ UNCHANGED restVars

\* MessageBus.subscribe("mcp.tool.result", result_handler), first part:
\* the channel is known (append, then wait_for starts) or new
\* (self.subscribers[channel] = [], then `await self.pubsub.subscribe`).
TTSSubscribe(c) ==
    /\ call[c].pc = "publishing"
    /\ IF ResultCh \in DOMAIN subscribers
       THEN /\ subscribers' = AppendCallback(subscribers, ResultCh, ResultHandler(c))
            /\ call' = [call EXCEPT ![c].pc = "waiting", ![c].t0 = now]
       ELSE /\ subscribers' = NewChannel(subscribers, ResultCh)
            /\ call' = [call EXCEPT ![c].pc = "subscribing"]
    /\ UNCHANGED <<now, busQueue, pubsubChannels, listener,
                   pending_tool_results, tool_registry, connected, gw>>
    /\ UNCHANGED <<slowFor, lateSeen>>
    /\ UNCHANGED <<cbVars, retryVars, gwVars>>
    /\ UNCHANGED restVars

\* MessageBus.subscribe, after `await self.pubsub.subscribe(channel)`:
\* the append raises KeyError if the channel was unsubscribed meanwhile
\* (MessageBusError out of _call_mcp_tool).
TTSSubscribed(c) ==
    /\ call[c].pc = "subscribing"
    /\ pubsubChannels' = pubsubChannels \cup {ResultCh}
    /\ IF ResultCh \in DOMAIN subscribers
       THEN /\ subscribers' = AppendCallback(subscribers, ResultCh, ResultHandler(c))
            /\ call' = [call EXCEPT ![c].pc = "waiting", ![c].t0 = now]
            /\ UNCHANGED listener
       ELSE /\ call' = [call EXCEPT ![c].pc = "done", ![c].outcome = "error"]
            /\ listener' = ListenerAfter(c)
            /\ UNCHANGED subscribers
    /\ UNCHANGED <<now, busQueue, pending_tool_results, tool_registry,
                   connected, gw>>
    /\ UNCHANGED <<slowFor, lateSeen>>
    /\ UNCHANGED <<cbVars, retryVars, gwVars>>
    /\ UNCHANGED restVars

\* A `finally` that leaves the subscriptions as they are.
TtsFinallyKeeps(subs) == subs

\* The `finally` of _call_mcp_tool.
TtsFinally(subs) == Unsubscribe(subs, ResultCh)

TTSExit(c, outcome) ==
    /\ call' = [call EXCEPT ![c].pc = "done", ![c].outcome = outcome]
    /\ subscribers' = TtsFinally(subscribers)
    /\ pubsubChannels' = PubsubUnsubscribe(pubsubChannels, subscribers, ResultCh)
    /\ listener' = ListenerAfter(c)

\* wait_for returns: result_received was set.
TTSReturn(c) ==
    /\ call[c].pc = "waiting"
    /\ call[c].got # NoMsg
    /\ TTSExit(c, "result")
    /\ UNCHANGED <<now, busQueue, pending_tool_results, tool_registry,
                   connected, gw>>
    /\ UNCHANGED <<slowFor, lateSeen>>
    /\ UNCHANGED <<cbVars, retryVars, gwVars>>
    /\ UNCHANGED restVars

\* wait_for raises asyncio.TimeoutError.
TTSTimeout(c) ==
    /\ call[c].pc = "waiting"
    /\ call[c].got = NoMsg
    /\ now - call[c].t0 >= TimeoutTicks
    /\ TTSExit(c, "timeout")
    /\ UNCHANGED <<now, busQueue, pending_tool_results, tool_registry,
                   connected, gw>>
    /\ UNCHANGED <<slowFor, lateSeen>>
    /\ UNCHANGED <<cbVars, retryVars, gwVars>>
    /\ UNCHANGED restVars

\* The task running a call is cancelled at the await it is suspended in.
Cancel(c) ==
    /\ call[c].origin = "direct"
    /\ call[c].pc \in {"publishing", "subscribing", "waiting", "polling"}
    /\ IF call[c].pc = "waiting"
       THEN TTSExit(c, "cancelled")
       ELSE /\ call' = [call EXCEPT ![c].pc = "done", ![c].outcome = "cancelled"]
            /\ UNCHANGED <<subscribers, pubsubChannels, listener>>
    /\ UNCHANGED <<now, busQueue, pending_tool_results, tool_registry,
                   connected, gw>>
    /\ UNCHANGED <<slowFor, lateSeen>>
    /\ UNCHANGED <<cbVars, retryVars, gwVars>>
    /\ UNCHANGED restVars

\* One turn of the engine's wait loop that does not go back to sleep.
LLMPollLoop(c) ==
    /\ call[c].pc = "polling"
    /\ IF now - call[c].t0 < TimeoutTicks
       THEN /\ call[c].rid \in DOMAIN pending_tool_results
            /\ pending_tool_results' =
                 [k \in (DOMAIN pending_tool_results) \ {call[c].rid} |->
                    pending_tool_results[k]]
            /\ call' = [call EXCEPT
                          ![c].pc = "done",
                          ![c].got = pending_tool_results[call[c].rid],
                          ![c].outcome =
                             IF pending_tool_results[call[c].rid].success
                             THEN "result" ELSE "tool_error"]
       ELSE /\ call' = [call EXCEPT ![c].pc = "done", ![c].outcome = "timeout"]
            /\ UNCHANGED pending_tool_results
    /\ listener' = ListenerAfter(c)
    /\ UNCHANGED <<now, busQueue, subscribers, pubsubChannels, tool_registry,
                   connected, gw>>
    /\ UNCHANGED <<slowFor, lateSeen>>
    /\ UNCHANGED <<cbVars, retryVars, gwVars>>
    /\ UNCHANGED restVars

\* ------------------------------------------------------ the bus listener

\* A listener that takes the next message while a callback is suspended.
CanDispatchWhileBusy == busQueue # <<>>

CanDispatch == listener.st = "idle" /\ busQueue # <<>>

\* The callbacks of "mcp.tool.result".
ResultHandlers ==
    IF ResultCh \in DOMAIN subscribers THEN Range(subscribers[ResultCh]) ELSE {}

\* A result whose request is over: a call drew its request_id, and every
\* call that drew it has ended.
LateResult(m) ==
    /\ m.channel = ResultCh
    /\ \E c \in Calls : call[c].rid = m.request_id
    /\ \A c \in Calls : call[c].rid = m.request_id => call[c].pc = "done"

\* The listener takes the head of the queue: "handled" once the result of a
\* request that timed out went to the result_handler of some call,
\* "dropped" once a late result went to no result_handler.
NoteLate ==
    lateSeen' =
       IF ~LateResult(Head(busQueue)) \/ lateSeen = "handled" THEN lateSeen
       ELSE IF /\ \E c \in Calls : ResultHandler(c) \in ResultHandlers
               /\ \E c \in Calls : /\ call[c].rid = Head(busQueue).request_id
                                    /\ call[c].outcome = "timeout"
            THEN "handled"
            ELSE "dropped"

\* The channel has no callbacks any more: the message is dropped.
DispatchDropped ==
    /\ CanDispatch
    /\ Head(busQueue).channel \notin DOMAIN subscribers
    /\ busQueue' = Tail(busQueue)
    /\ UNCHANGED <<now, subscribers, pubsubChannels, listener, call,
                   pending_tool_results, tool_registry, connected, gw>>
    /\ NoteLate
    /\ UNCHANGED slowFor
    /\ UNCHANGED <<cbVars, retryVars, gwVars>>
    /\ UNCHANGED restVars

\* A result_handler that takes any result.
ResultHandlerTakesAny(c, m) == m

\* result_handler of call c, given message m.
ResultHandlerGot(c, m) ==
    IF m.request_id = call[c].rid THEN m ELSE call[c].got

\* A result: every callback of the channel runs to its end in turn.
DispatchResult ==
    /\ CanDispatch
    /\ Head(busQueue).channel = ResultCh
    /\ ResultCh \in DOMAIN subscribers
    /\ busQueue' = Tail(busQueue)
    /\ call' = [c \in Calls |->
                  IF ResultHandler(c) \in Range(subscribers[ResultCh])
                  THEN [call[c] EXCEPT !.got = ResultHandlerGot(c, Head(busQueue))]
                  ELSE call[c]]
    /\ UNCHANGED <<now, subscribers, pubsubChannels, listener,
                   pending_tool_results, tool_registry, connected, gw>>
    /\ NoteLate
    /\ UNCHANGED slowFor
    /\ UNCHANGED <<cbVars, retryVars, gwVars>>
    /\ UNCHANGED restVars

GwIdle == [pc |-> "idle", request_id |-> Absent, tool |-> "", src |-> 0,
           slow |-> FALSE]

\* A handler that tags every result "unknown".
RequestIdAlwaysUnknown(m) == Unknown

\* data.get("request_id", "unknown")
RequestIdOf(m) == IF m.request_id = Absent THEN Unknown ELSE m.request_id

\* The gateway's checks before call_tool: the tool is in the registry and
\* its server is connected.
Routable(tool) ==
    /\ tool \in DOMAIN tool_registry
    /\ tool_registry[tool] \in connected

\* A tool request reaches the gateway's handler: an error result at once,
\* or `await server.call_tool(...)`, which suspends the listener.
DispatchExecute ==
    /\ CanDispatch
    /\ Head(busQueue).channel = ExecuteCh
    /\ ExecuteCh \in DOMAIN subscribers
    /\ LET m == Head(busQueue) IN
       IF Routable(m.tool_name)
       THEN /\ \E slow \in BOOLEAN :
                 /\ gw' = [pc |-> "invoking", request_id |-> RequestIdOf(m),
                           tool |-> m.tool_name, src |-> m.src, slow |-> slow]
                 /\ slowFor' = IF slow THEN slowFor \cup {m.src} ELSE slowFor
            /\ listener' = [st |-> "gateway", call |-> 0]
            /\ busQueue' = Tail(busQueue)
       ELSE /\ busQueue' = Publish(Tail(busQueue),
                                   Msg(ResultCh, RequestIdOf(m), Absent,
                                       m.tool_name, FALSE, 0, m.src))
            /\ UNCHANGED <<gw, listener, slowFor>>
    /\ UNCHANGED <<now, subscribers, pubsubChannels, call,
                   pending_tool_results, tool_registry, connected, lateSeen>>
    /\ UNCHANGED <<cbVars, retryVars, gwVars>>
    /\ UNCHANGED restVars

\* call_tool returns or raises MCPGatewayError; the gateway publishes the
\* result and its handler returns.
ProviderReturn ==
    /\ gw.pc = "invoking"
    /\ \E ok \in BOOLEAN :
         busQueue' = Publish(busQueue,
                             Msg(ResultCh, gw.request_id, Absent, gw.tool, ok,
                                 IF ok THEN gw.src ELSE 0, gw.src))
    /\ gw' = GwIdle
    /\ listener' = ListenerIdle
    /\ UNCHANGED <<now, subscribers, pubsubChannels, call,
                   pending_tool_results, tool_registry, connected>>
    /\ UNCHANGED <<slowFor, lateSeen>>
    /\ UNCHANGED <<cbVars, retryVars, gwVars>>
    /\ UNCHANGED restVars

\* A transcription reaches LLMEngine._handle_transcription, which the
\* listener awaits; the model answers with a tool call.
DispatchTranscription ==
    /\ CanDispatch
    /\ Head(busQueue).channel = TranscriptionCh
    /\ TranscriptionCh \in DOMAIN subscribers
    /\ \E tool \in LlmTools : LLMBegin(NextCall, "handler", tool)
    /\ listener' = [st |-> "handler", call |-> NextCall]
    /\ UNCHANGED <<now, subscribers, pubsubChannels, pending_tool_results,
                   tool_registry, connected, gw>>
    /\ UNCHANGED <<slowFor, lateSeen>>
    /\ UNCHANGED <<cbVars, retryVars, gwVars>>
    /\ UNCHANGED restVars

\* A TTS request reaches TTSService._handle_tts_request, which the listener
\* awaits.
DispatchTtsRequest ==
    /\ CanDispatch
    /\ Head(busQueue).channel = TtsGenerateCh
    /\ TtsGenerateCh \in DOMAIN subscribers
    /\ TTSBegin(NextCall, "handler")
    /\ listener' = [st |-> "handler", call |-> NextCall]
    /\ UNCHANGED <<now, subscribers, pubsubChannels, pending_tool_results,
                   tool_registry, connected, gw>>
    /\ UNCHANGED <<slowFor, lateSeen>>
    /\ UNCHANGED <<cbVars, retryVars, gwVars>>
    /\ UNCHANGED restVars

\* ------------------------------------------------------------------ time

\* Steps that take no time to speak of next to the 30 s waits: the
\* listener picking up a delivered message, a provider that answers at once.
Urgent ==
    \/ CanDispatch
    \/ gw.pc = "invoking" /\ ~gw.slow

Tick ==
    /\ now < MaxTime
    /\ ~Urgent
    /\ now' = now + 1
    /\ UNCHANGED <<busQueue, subscribers, pubsubChannels, listener, call,
                   pending_tool_results, tool_registry, connected, gw>>
    /\ UNCHANGED <<slowFor, lateSeen>>
    /\ UNCHANGED <<cbVars, retryVars, gwVars>>
    /\ UNCHANGED restVars

\* -------------------------------------------------------- CircuitBreaker

\* self._last_failure_time = None
None == -1

\* The breaker object as its methods see it.
Breaker ==
    [state |-> cbState, failure_count |-> failureCount,
     success_count |-> successCount, last_failure_time |-> lastFailureTime]

\* A breaker whose recovery check always passes.
ShouldAttemptResetAlways(b, t) == TRUE

\* CircuitBreaker._should_attempt_reset at clock reading t.
ShouldAttemptReset(b, t) ==
    IF b.last_failure_time = None THEN FALSE
    ELSE t - b.last_failure_time >= RecoveryTicks

\* A breaker whose successes leave the failure counter alone while CLOSED.
OnSuccessKeepsCount(b) ==
    IF b.state = "HALF_OPEN"
    THEN IF b.success_count + 1 >= SuccessThreshold
         THEN [b EXCEPT !.state = "CLOSED", !.failure_count = 0,
                        !.success_count = 0]
         ELSE [b EXCEPT !.success_count = @ + 1]
    ELSE b

\* A breaker that any success closes, whatever its state.
OnSuccessClosesWhenOpen(b) ==
    IF b.state = "HALF_OPEN"
    THEN IF b.success_count + 1 >= SuccessThreshold
         THEN [b EXCEPT !.state = "CLOSED", !.failure_count = 0,
                        !.success_count = 0]
         ELSE [b EXCEPT !.success_count = @ + 1]
    ELSE [b EXCEPT !.state = "CLOSED", !.failure_count = 0]

\* A breaker that closes on its first success in HALF_OPEN.
OnSuccessClosesAtOnce(b) ==
    IF b.state = "HALF_OPEN"
    THEN [b EXCEPT !.state = "CLOSED", !.failure_count = 0,
                   !.success_count = 0]
    ELSE IF b.state = "CLOSED"
         THEN [b EXCEPT !.failure_count = 0]
         ELSE b

\* CircuitBreaker._on_success
OnSuccess(b) ==
    IF b.state = "HALF_OPEN"
    THEN IF b.success_count + 1 >= SuccessThreshold
         THEN [b EXCEPT !.state = "CLOSED", !.failure_count = 0,
                        !.success_count = 0]
         ELSE [b EXCEPT !.success_count = @ + 1]
    ELSE IF b.state = "CLOSED"
         THEN [b EXCEPT !.failure_count = 0]
         ELSE b

\* A breaker that goes on probing after a failed probe.
StateAfterFailureKeepsProbing(state, count) ==
    IF state = "HALF_OPEN" THEN "HALF_OPEN"
    ELSE IF count >= FailureThreshold THEN "OPEN"
    ELSE state

\* The state _on_failure leaves, given the incremented counter.
StateAfterFailure(state, count) ==
    IF state = "HALF_OPEN" THEN "OPEN"
    ELSE IF count >= FailureThreshold THEN "OPEN"
    ELSE state

\* CircuitBreaker._on_failure at clock reading t.
OnFailure(b, t) ==
    [state |-> StateAfterFailure(b.state, b.failure_count + 1),
     failure_count |-> b.failure_count + 1,
     success_count |-> 0,
     last_failure_time |-> t]

\* A manual reset that closes the breaker but keeps its failure counter.
ResetKeepsFailures(b) ==
    [state |-> "CLOSED", failure_count |-> b.failure_count,
     success_count |-> 0, last_failure_time |-> None]

\* CircuitBreaker.reset
Reset(b) ==
    [state |-> "CLOSED", failure_count |-> 0, success_count |-> 0,
     last_failure_time |-> None]

\* The breaker's fields take the values of b; openedAt follows the state.
SetBreaker(b) ==
    /\ cbState' = b.state
    /\ failureCount' = b.failure_count
    /\ successCount' = b.success_count
    /\ lastFailureTime' = b.last_failure_time
    /\ openedAt' = IF b.state = "OPEN" /\ cbState # "OPEN" THEN cbNow ELSE openedAt

\* A call is suspended in `await func(...)`.
Admit(event) ==
    /\ inFlight < MaxInFlight
    /\ inFlight' = inFlight + 1
    /\ lastEvent' = event

\* The call raises CircuitBreakerOpenError.
Reject ==
    /\ lastEvent' = "rejected"
    /\ UNCHANGED <<cbState, failureCount, successCount, lastFailureTime,
                   openedAt, inFlight>>

\* protect.wrapper up to `await func(*args, **kwargs)`.
CBCall ==
    /\ guard = "protect"
    /\ IF cbState = "OPEN"
       THEN IF ShouldAttemptReset(Breaker, cbNow)
            THEN /\ SetBreaker([Breaker EXCEPT !.state = "HALF_OPEN"])
                 /\ Admit("probe")
            ELSE Reject
       ELSE /\ SetBreaker(Breaker)
            /\ Admit("admitted")
    /\ callSeq' = 1 - callSeq
    /\ UNCHANGED <<cbNow, streak, guard>>
    /\ UNCHANGED <<corrVars, retryVars, gwVars>>
    /\ UNCHANGED restVars

\* LLMEngine._call_ollama_with_retry up to `await self.client.chat(...)`.
EngineCall ==
    /\ guard = "engine"
    /\ IF cbState = "OPEN"
       THEN Reject
       ELSE /\ SetBreaker(Breaker)
            /\ Admit("admitted")
    /\ callSeq' = 1 - callSeq
    /\ UNCHANGED <<cbNow, streak, guard>>
    /\ UNCHANGED <<corrVars, retryVars, gwVars>>
    /\ UNCHANGED restVars

\* The wrapped operation returns: _on_success().
CBSuccess ==
    /\ inFlight > 0
    /\ inFlight' = inFlight - 1
    /\ SetBreaker(OnSuccess(Breaker))
    /\ streak' = 0
    /\ lastEvent' = IF cbState = "HALF_OPEN" /\ OnSuccess(Breaker).state = "CLOSED"
                    THEN "closed" ELSE "success"
    /\ UNCHANGED <<cbNow, callSeq, guard>>
    /\ UNCHANGED <<corrVars, retryVars, gwVars>>
    /\ UNCHANGED restVars

\* The wrapped operation raises an exception the breaker counts:
\* _on_failure(e).
CBFailure ==
    /\ inFlight > 0
    /\ inFlight' = inFlight - 1
    /\ SetBreaker(OnFailure(Breaker, cbNow))
    /\ streak' = streak + 1
    /\ lastEvent' = IF cbState = "HALF_OPEN" THEN "reopened" ELSE "failure"
    /\ UNCHANGED <<cbNow, callSeq, guard>>
    /\ UNCHANGED <<corrVars, retryVars, gwVars>>
    /\ UNCHANGED restVars

\* A guard that records every exception of the wrapped operation as a
\* failure, whatever its type.
CBUnexpectedCounted ==
    /\ inFlight > 0
    /\ inFlight' = inFlight - 1
    /\ SetBreaker(OnFailure(Breaker, cbNow))
    /\ lastEvent' = "unexpected"
    /\ UNCHANGED <<cbNow, streak, callSeq, guard>>
    /\ UNCHANGED <<corrVars, retryVars, gwVars>>
    /\ UNCHANGED restVars

\* The wrapped operation raises an exception no `except` clause of the
\* guard matches (not expected_exception; CancelledError in the engine).
CBUnexpected ==
    /\ inFlight > 0
    /\ inFlight' = inFlight - 1
    /\ lastEvent' = "unexpected"
    /\ UNCHANGED <<cbState, failureCount, successCount, lastFailureTime,
                   openedAt, cbNow, streak, callSeq, guard>>
    /\ UNCHANGED <<corrVars, retryVars, gwVars>>
    /\ UNCHANGED restVars

\* breaker.reset()
CBReset ==
    /\ SetBreaker(Reset(Breaker))
    /\ streak' = 0
    /\ lastEvent' = "reset"
    /\ UNCHANGED <<cbNow, inFlight, callSeq, guard>>
    /\ UNCHANGED <<corrVars, retryVars, gwVars>>
    /\ UNCHANGED restVars

CBTick ==
    /\ cbNow < MaxCbTime
    /\ cbNow' = cbNow + 1
    /\ UNCHANGED <<cbState, failureCount, successCount, lastFailureTime,
                   inFlight, openedAt, streak, lastEvent, callSeq, guard>>
    /\ UNCHANGED <<corrVars, retryVars, gwVars>>
    /\ UNCHANGED restVars

\* ------------------------------------------------- retry_with_backoff

\* What an invocation of the wrapped operation can raise.
Kinds == {"ConnectionError", "CircuitBreakerOpenError", "ValueError",
          "CancelledError"}

\* exceptions=(Exception,), the default allow-list.
DefaultExceptions == {"Exception"}
\* The allow-list of LLMEngine._call_ollama_with_retry.
EngineExceptions == {"ResponseError", "TimeoutError", "ConnectionError"}

\* isinstance(e, cls): every kind but CancelledError derives from Exception.
IsInstance(kind, cls) ==
    \/ cls = kind
    \/ cls = "Exception" /\ kind # "CancelledError"

\* An allow-list that catches every kind.
CaughtAlways(c, kind) == TRUE

\* `except exceptions as e` catches the kind.
Caught(c, kind) == \E cls \in c.exceptions : IsInstance(kind, cls)

\* The decorator's arguments; retry_sync takes no on_retry.
Configs ==
    {c \in [max_retries : 0..MaxRetriesBound, base_delay : {1, 2},
            max_delay : {3, 60}, exponential_base : {2, 3},
            jitter : BOOLEAN, exceptions : {DefaultExceptions, EngineExceptions},
            sync : BOOLEAN, on_retry : BOOLEAN] :
       c.sync => ~c.on_retry}

RECURSIVE Pow(_, _)
Pow(b, e) == IF e = 0 THEN 1 ELSE b * Pow(b, e - 1)

Min(a, b) == IF a <= b THEN a ELSE b

\* Delays are kept in units of 1 / (2 * RandomSteps) second.
UnitsPerSecond == 2 * RandomSteps

\* A backoff whose exponent is one ahead.
BackoffOneAhead(c, att) ==
    Min(c.base_delay * Pow(c.exponential_base, att + 1), c.max_delay)

\* min(base_delay * (exponential_base ** attempt), max_delay), in seconds.
Backoff(c, att) ==
    Min(c.base_delay * Pow(c.exponential_base, att), c.max_delay)

\* delay * (0.5 + random.random()) with random.random() = k / RandomSteps.
Jittered(d, k) == d * (RandomSteps + 2 * k)

\* The delay the wrapper sleeps after the failed attempt att, given the
\* value k / RandomSteps of random.random().
SleepDelay(c, att, k) ==
    IF c.jitter THEN Jittered(Backoff(c, att), k)
    ELSE Backoff(c, att) * UnitsPerSecond

\* A wrapper that gives up one attempt later.
LastAttemptOneLater(c, att) == att = c.max_retries + 1

\* `if attempt == max_retries`
LastAttempt(c, att) == att = c.max_retries

\* A RetryExhaustedError raised without `from e`.
ChainedToNothing(e) == "none"

\* `raise RetryExhaustedError(...) from e`: the __cause__ of the error.
ChainedFrom(e) == e

\* The invocation of the operation in this turn of the loop does `what`.
Invoke(what) ==
    /\ rPc = "calling"
    /\ outcomes' = Append(outcomes, what)

\* `return await func(*args, **kwargs)`: the value of this invocation.
AttemptReturns ==
    /\ Invoke("ok")
    /\ rPc' = "returned"
    /\ returned' = Len(outcomes) + 1
    /\ UNCHANGED <<cfg, attempt, delays, onRetryCalls, raised, cause>>
    /\ UNCHANGED <<corrVars, cbVars, gwVars>>
    /\ UNCHANGED restVars

\* The operation raises a kind the allow-list catches, before the last
\* attempt: delay, on_retry, sleep.
AttemptFailsRetryable ==
    /\ ~LastAttempt(cfg, attempt)
    /\ \E kind \in Kinds :
         /\ Caught(cfg, kind)
         /\ Invoke(kind)
    /\ \E k \in 0..(RandomSteps - 1) :
         /\ cfg.jitter \/ k = 0
         /\ delays' = Append(delays, SleepDelay(cfg, attempt, k))
    /\ onRetryCalls' = IF cfg.on_retry THEN Append(onRetryCalls, attempt + 1)
                       ELSE onRetryCalls
    /\ rPc' = "sleeping"
    /\ UNCHANGED <<cfg, attempt, raised, cause, returned>>
    /\ UNCHANGED <<corrVars, cbVars, gwVars>>
    /\ UNCHANGED restVars

\* The operation raises a kind the allow-list catches on the last attempt:
\* RetryExhaustedError.
AttemptExhausted ==
    /\ LastAttempt(cfg, attempt)
    /\ \E kind \in Kinds :
         /\ Caught(cfg, kind)
         /\ Invoke(kind)
         /\ cause' = ChainedFrom(kind)
    /\ raised' = "RetryExhaustedError"
    /\ rPc' = "raised"
    /\ UNCHANGED <<cfg, attempt, delays, onRetryCalls, returned>>
    /\ UNCHANGED <<corrVars, cbVars, gwVars>>
    /\ UNCHANGED restVars

\* The operation raises a kind no clause of the wrapper catches.
AttemptPropagates ==
    /\ \E kind \in Kinds :
         /\ ~Caught(cfg, kind)
         /\ Invoke(kind)
         /\ raised' = kind
    /\ rPc' = "raised"
    /\ UNCHANGED <<cfg, attempt, delays, onRetryCalls, cause, returned>>
    /\ UNCHANGED <<corrVars, cbVars, gwVars>>
    /\ UNCHANGED restVars

\* The sleep ends: the next turn of `for attempt in range(max_retries + 1)`.
SleepEnds ==
    /\ rPc = "sleeping"
    /\ attempt' = attempt + 1
    /\ rPc' = "calling"
    /\ UNCHANGED <<cfg, outcomes, delays, onRetryCalls, raised, cause,
                   returned>>
    /\ UNCHANGED <<corrVars, cbVars, gwVars>>
    /\ UNCHANGED restVars

\* A call of the wrapper with configuration c, about to invoke the operation.
InitRetry(c) ==
    /\ cfg = c
    /\ rPc = "calling"
    /\ attempt = 0
    /\ outcomes = <<>>
    /\ delays = <<>>
    /\ onRetryCalls = <<>>
    /\ raised = "none"
    /\ cause = "none"
    /\ returned = 0

\* The decorator of LLMEngine._call_ollama_with_retry.
EngineRetry ==
    [max_retries |-> 3, base_delay |-> 1, max_delay |-> 60,
     exponential_base |-> 2, jitter |-> TRUE, exceptions |-> EngineExceptions,
     sync |-> FALSE, on_retry |-> FALSE]

\* -------------------------------------------------------------- MCPGateway

RegistryCh == "mcp.tool.registry"
EngineRegistryCh == "mcp.tool_registry"
GuiMessageCh == "gui.user_message"

GuiMessageCb == Callback("LLMEngine._handle_gui_message", 0)
ToolRegistryCb == Callback("LLMEngine._handle_tool_registry", 0)

\* The provider processes of mcp_servers.yaml and the tools each lists.
Providers == {"weather", "elevenlabs", "filesystem"}

Catalogue(p) ==
    CASE p = "weather" -> {"get_weather", "search"}
      [] p = "elevenlabs" -> {"text_to_speech", "search"}
      [] OTHER -> {"read_file"}

\* self.servers, in the order of the file; <<>>: no provider configured.
ServerOrders == {<<"weather", "elevenlabs", "filesystem">>, <<>>}

\* data.get("tool_name") of a request; "": the key is missing.
RequestTools == {"search", "no_such_tool", ""}

\* data.get("request_id") of the n-th request: its own token, or missing.
RequestIds(n) == {Absent, <<"req", n>>}

EmptyRegistry == [t \in {} |-> ""]

\* The message of _publish_tool_registry.
RegistryMsg(reg) == [channel |-> RegistryCh, tools |-> reg, src |-> 0]

\* MessageBus.subscribe(channel, callback).
Subscribe(subs, ch, cb) ==
    IF ch \in DOMAIN subs THEN AppendCallback(subs, ch, cb)
    ELSE AppendCallback(NewChannel(subs, ch), ch, cb)

\* The providers whose list_tools() answers during one start().
Answering == {Providers, Providers \ {"filesystem"}}

\* A discovery that asks every provider.
DiscoveredRegardless(p, conn) == TRUE

\* `if not server.is_connected(): continue` in _discover_all_tools.
Discovered(p, conn) == p \in conn

\* self.tool_registry.update(tools) with the tools of provider p.
Update(reg, p, tools) ==
    [t \in (DOMAIN reg) \cup tools |-> IF t \in tools THEN p ELSE reg[t]]

\* The loop of _discover_all_tools from position i on: conn are the
\* connected providers, disc those whose list_tools() answers.
RECURSIVE DiscoverAll(_, _, _, _)
DiscoverAll(i, reg, conn, disc) ==
    IF i > Len(servers) THEN reg
    ELSE LET p == servers[i] IN
         DiscoverAll(i + 1,
                     IF Discovered(p, conn) /\ p \in disc
                     THEN Update(reg, p, Catalogue(p)) ELSE reg,
                     conn, disc)

\* A health check that does not look at the providers.
HealthCheckIgnoresServers == gwHealthy /\ gwRunning

\* BaseService.health_check
BaseHealthCheck == gwHealthy /\ gwRunning

\* MCPGateway.health_check
HealthCheck ==
    IF ~BaseHealthCheck THEN FALSE
    ELSE IF Cardinality(connected \cap Range(servers)) = 0 /\ Len(servers) > 0
         THEN FALSE
         ELSE TRUE

\* The logger.warning calls of one run of _discover_all_tools: one for
\* each configured provider that is not connected.
DiscoveryWarnings(conn) ==
    {[kind |-> "skipped_disconnected", about |-> p] :
       p \in Range(servers) \ conn}

\* MCPGateway.start: connect every provider (up: those whose connect()
\* succeeds), discover, publish the registry, subscribe, mark started.
GwStart ==
    /\ gwHealthy
    /\ ~gwRunning
    /\ starts < MaxStarts
    /\ \E up \in SUBSET Range(servers), disc \in Answering :
         LET conn == connected \cup up
             reg == DiscoverAll(1, EmptyRegistry, conn, disc)
         IN /\ connected' = conn
            /\ serverTools' = [p \in Providers |->
                                 IF Discovered(p, conn) /\ p \in disc
                                    /\ p \in Range(servers)
                                 THEN Catalogue(p) ELSE serverTools[p]]
            /\ tool_registry' = reg
            /\ busQueue' = Publish(busQueue, RegistryMsg(reg))
            /\ registryLog' = <<[tools |-> reg, engine |-> engineRunning]>>
            /\ gwWarnings' = DiscoveryWarnings(conn)
    /\ subscribers' = Subscribe(subscribers, ExecuteCh, GatewayCb)
    /\ pubsubChannels' = pubsubChannels \cup {ExecuteCh}
    /\ gwRunning' = TRUE
    /\ starts' = starts + 1
    /\ UNCHANGED <<now, listener, call, pending_tool_results, gw, slowFor,
                   lateSeen>>
    /\ UNCHANGED <<servers, gwHealthy, gwHandlers, available_tools,
                   engineRunning, requested, received, finished, published,
                   invoked>>
    /\ UNCHANGED <<cbVars, retryVars>>
    /\ UNCHANGED <<connVars, busVars, turnVars>>

\* MCPGateway.stop: unsubscribe, disconnect every connected provider
\* (MCPServerConnection.disconnect, with session.close() returning; a
\* close() that raises is followed in the connection model), mark stopped.
GwStop ==
    /\ gwRunning
    /\ subscribers' = Unsubscribe(subscribers, ExecuteCh)
    /\ pubsubChannels' = PubsubUnsubscribe(pubsubChannels, subscribers, ExecuteCh)
    /\ connected' = connected \ Range(servers)
    /\ serverTools' = [p \in Providers |->
                         IF p \in connected /\ p \in Range(servers)
                         THEN {} ELSE serverTools[p]]
    /\ gwRunning' = FALSE
    /\ UNCHANGED <<now, busQueue, listener, call, pending_tool_results,
                   tool_registry, gw, slowFor, lateSeen>>
    /\ UNCHANGED <<servers, gwHealthy, gwHandlers, available_tools,
                   engineRunning, requested, received, finished, published,
                   invoked, registryLog, starts>>
    /\ UNCHANGED <<cbVars, retryVars>>
    /\ UNCHANGED restVars

\* LLMEngine.start: its three subscriptions.
EngineStart ==
    /\ ~engineRunning
    /\ subscribers' =
         Subscribe(Subscribe(Subscribe(subscribers, TranscriptionCh,
                                       TranscriptionCb),
                             GuiMessageCh, GuiMessageCb),
                   EngineRegistryCh, ToolRegistryCb)
    /\ pubsubChannels' = pubsubChannels \cup
                           {TranscriptionCh, GuiMessageCh, EngineRegistryCh}
    /\ engineRunning' = TRUE
    /\ UNCHANGED <<now, busQueue, listener, call, pending_tool_results,
                   tool_registry, connected, gw, slowFor, lateSeen>>
    /\ UNCHANGED <<servers, serverTools, gwRunning, gwHealthy, gwHandlers,
                   available_tools, requested, received, finished, published,
                   invoked, registryLog, starts>>
    /\ UNCHANGED <<cbVars, retryVars>>
    /\ UNCHANGED restVars

\* A service publishes a tool request on "mcp.tool.execute"; `src` numbers
\* the requests.
GwRequest ==
    /\ requested < MaxRequests
    /\ \E tool \in RequestTools, rid \in RequestIds(requested + 1) :
         busQueue' = Publish(busQueue,
                             Msg(ExecuteCh, rid, Absent, tool, FALSE, 0,
                                 requested + 1))
    /\ requested' = requested + 1
    /\ UNCHANGED <<now, subscribers, pubsubChannels, listener, call,
                   pending_tool_results, tool_registry, connected, gw,
                   slowFor, lateSeen>>
    /\ UNCHANGED <<servers, serverTools, gwRunning, gwHealthy, gwHandlers,
                   available_tools, engineRunning, received, finished,
                   published, invoked, registryLog, starts>>
    /\ UNCHANGED <<cbVars, retryVars>>
    /\ UNCHANGED restVars

\* The result the gateway publishes for request m: result_message
\* (error "") or error_message.
ResultMessage(m, ok, error) ==
    [src |-> m.src, request_id |-> RequestIdOf(m), tool_name |-> m.tool_name,
     success |-> ok, error |-> error]

\* An error result that says success.
ErrorMessageAsSuccess(m, error) == ResultMessage(m, TRUE, error)

\* error_message of the `except MCPGatewayError` branch.
ErrorMessage(m, error) == ResultMessage(m, FALSE, error)

\* The MCPGatewayError the handler raises before it awaits the provider,
\* "" if it raises none; the last case is raised by call_tool itself.
RaisedBeforeInvoke(tool) ==
    CASE tool = "" -> "Missing 'tool_name' in request"
      [] tool \notin DOMAIN tool_registry -> "Tool not found in registry"
      [] tool_registry[tool] \notin connected \cap Range(servers) ->
            "Server not connected"
      [] tool \notin serverTools[tool_registry[tool]] ->
            "Tool execution failed: not found in server"
      [] OTHER -> ""

\* The first configured provider that lists the tool.
OwnerFirstListed(tool) ==
    servers[CHOOSE i \in DOMAIN servers :
               /\ tool \in serverTools[servers[i]]
               /\ \A j \in DOMAIN servers :
                     tool \in serverTools[servers[j]] => i <= j]

\* tool_info["server"]: the provider the registry records for the tool.
Owner(tool) == tool_registry[tool]

\* await self.message_bus.publish("mcp.tool.result", ...), and the record
\* of it.
PublishResult(q, r) ==
    /\ busQueue' = Publish(q, Msg(ResultCh, r.request_id, Absent, r.tool_name,
                                  r.success, IF r.success THEN r.src ELSE 0,
                                  r.src))
    /\ published' = Append(published, r)

\* _handle_tool_execution(m) up to its first suspension: an error result
\* and return, or `await server.call_tool(...)`.
HandleToolExecution(m) ==
    /\ received' = received \cup {m}
    /\ IF RaisedBeforeInvoke(m.tool_name) # ""
       THEN /\ PublishResult(Tail(busQueue),
                             ErrorMessage(m, RaisedBeforeInvoke(m.tool_name)))
            /\ finished' = finished \cup {m.src}
            /\ UNCHANGED <<gwHandlers, invoked, listener>>
       ELSE /\ gwHandlers' = gwHandlers \cup
                               {[m |-> m, server |-> Owner(m.tool_name)]}
            /\ invoked' = invoked \cup
                            {[src |-> m.src, tool |-> m.tool_name,
                              server |-> Owner(m.tool_name)]}
            /\ listener' = [st |-> "gateway", call |-> 0]
            /\ busQueue' = Tail(busQueue)
            /\ UNCHANGED <<finished, published>>
    /\ UNCHANGED available_tools

\* LLMEngine._handle_tool_registry(m)
HandleToolRegistry(m) ==
    /\ available_tools' = m.tools
    /\ busQueue' = Tail(busQueue)
    /\ UNCHANGED <<received, finished, published, invoked, gwHandlers,
                   listener>>

\* The listener takes the next message and awaits the callbacks of its
\* channel; a channel without callbacks: the message is dropped.
GwDispatch ==
    /\ CanDispatch
    /\ LET m == Head(busQueue) IN
       IF m.channel \notin DOMAIN subscribers
       THEN /\ busQueue' = Tail(busQueue)
            /\ UNCHANGED <<received, finished, published, invoked,
                           gwHandlers, listener, available_tools>>
       ELSE IF m.channel = ExecuteCh
            THEN HandleToolExecution(m)
            ELSE IF m.channel = EngineRegistryCh
                 THEN HandleToolRegistry(m)
                 ELSE /\ busQueue' = Tail(busQueue)
                      /\ UNCHANGED <<received, finished, published, invoked,
                                     gwHandlers, listener, available_tools>>
    /\ UNCHANGED <<now, subscribers, pubsubChannels, call,
                   pending_tool_results, tool_registry, connected, gw,
                   slowFor, lateSeen>>
    /\ UNCHANGED <<servers, serverTools, gwRunning, gwHealthy, engineRunning,
                   requested, registryLog, starts>>
    /\ UNCHANGED <<cbVars, retryVars>>
    /\ UNCHANGED restVars

\* A call_tool that lets the provider's exception through as it is.
CallToolErrorUnwrapped(e) == e

\* `except Exception as e: raise MCPGatewayError(...) from e` in call_tool.
CallToolError(e) == "MCPGatewayError"

\* session.call_tool returns or raises; the handler publishes the result
\* (`except MCPGatewayError`) or only logs (`except Exception`), and returns.
CallToolReturns ==
    /\ \E h \in gwHandlers :
         /\ \E outcome \in {"ok", "ProviderError"} :
              IF outcome = "ok"
              THEN PublishResult(busQueue, ResultMessage(h.m, TRUE, ""))
              ELSE IF CallToolError(outcome) = "MCPGatewayError"
                   THEN PublishResult(busQueue,
                                      ErrorMessage(h.m, "Tool execution failed"))
                   ELSE UNCHANGED <<busQueue, published>>
         /\ gwHandlers' = gwHandlers \ {h}
         /\ finished' = finished \cup {h.m.src}
    /\ listener' = ListenerIdle
    /\ UNCHANGED <<now, subscribers, pubsubChannels, call,
                   pending_tool_results, tool_registry, connected, gw,
                   slowFor, lateSeen>>
    /\ UNCHANGED <<servers, serverTools, gwRunning, gwHealthy,
                   available_tools, engineRunning, requested, received,
                   invoked, registryLog, starts>>
    /\ UNCHANGED <<cbVars, retryVars>>
    /\ UNCHANGED restVars

\* The gateway after __init__ and initialize() with the providers of
\* `order` configured; the engine after __init__.
InitGw(order) ==
    /\ servers = order
    /\ serverTools = [p \in Providers |-> {}]
    /\ gwRunning = FALSE
    /\ gwHealthy = TRUE
    /\ gwHandlers = {}
    /\ available_tools = EmptyRegistry
    /\ engineRunning = FALSE
    /\ requested = 0
    /\ received = {}
    /\ finished = {}
    /\ published = <<>>
    /\ invoked = {}
    /\ registryLog = <<>>
    /\ starts = 0

\* ------------------------------------------------- MCPServerConnection

\* self.session = None
NoSession == 0

\* The connection object as its methods see it.
Connection == [session |-> session, connected |-> isConnected, tools |-> connTools]

\* MCPServerConnection.__init__
NewConnection == [session |-> NoSession, connected |-> FALSE, tools |-> {}]

\* What connect() can meet: it succeeds, stdio_client raises, or
\* session.initialize() raises.
ConnectOutcomes == {"ok", "spawn_fails", "initialize_fails"}

\* MCPServerConnection.connect, n being the session it would create.
Connect(c, n, outcome) ==
    CASE outcome = "spawn_fails" -> c
      [] outcome = "initialize_fails" -> [c EXCEPT !.session = n]
      [] OTHER -> [c EXCEPT !.session = n, !.connected = TRUE]

\* What connect() raises.
ConnectRaises(outcome) ==
    IF outcome = "ok" THEN "none" ELSE "MCPGatewayError"

\* MCPServerConnection.discover_tools; answers: list_tools() returns.
DiscoverTools(c, answers) ==
    IF c.session # NoSession /\ answers
    THEN [c EXCEPT !.tools = Catalogue("weather")]
    ELSE c

\* What discover_tools() raises.
DiscoverRaises(c, answers) ==
    IF c.session # NoSession /\ answers THEN "none" ELSE "MCPGatewayError"

\* MCPServerConnection.disconnect; closeRaises: session.close() raises,
\* which the `except Exception` clause logs.
Disconnect(c, closeRaises) ==
    IF c.session # NoSession /\ closeRaises
    THEN c
    ELSE [session |-> NoSession, connected |-> FALSE, tools |-> {}]

\* MCPServerConnection.is_connected
IsConnected(c) == c.connected /\ c.session # NoSession

\* The fields of the connection take the values of c after a call of op.
SetConnection(c, op, exc) ==
    /\ connCalls < MaxConnCalls
    /\ session' = c.session
    /\ isConnected' = c.connected
    /\ connTools' = c.tools
    /\ connCalls' = connCalls + 1
    /\ connOp' = op
    /\ connRaised' = exc
    /\ UNCHANGED <<corrVars, cbVars, retryVars, gwVars, logVars, busVars,
                   turnVars>>

ConnConnect ==
    \E outcome \in ConnectOutcomes :
       SetConnection(Connect(Connection, connCalls + 1, outcome), "connect",
                     ConnectRaises(outcome))

ConnDiscover ==
    \E answers \in BOOLEAN :
       SetConnection(DiscoverTools(Connection, answers), "discover_tools",
                     DiscoverRaises(Connection, answers))

ConnDisconnect ==
    \E closeRaises \in BOOLEAN :
       SetConnection(Disconnect(Connection, closeRaises), "disconnect", "none")

InitConn ==
    /\ session = NoSession
    /\ isConnected = FALSE
    /\ connTools = {}
    /\ connCalls = 0
    /\ connOp = "none"
    /\ connRaised = "none"

InitLog == gwWarnings = {}

\* ------------------------------------------------- MessageBus: the loop

\* The channels the services of this bus use.
BusChannels == {"stt.transcription", "llm.response"}

\* What pubsub.listen() yields: the n-th data message of the broker, or the
\* confirmation of a subscribe command (type "subscribe").
BusMsg(type, n, ch, decodable) ==
    [type |-> type, seq |-> n, channel |-> ch, decodable |-> decodable]

NoBusMsg == BusMsg("none", 0, "", FALSE)

\* The coroutine has not run yet / is suspended in pubsub.listen() / has
\* left the loop.
LoopNotStarted ==
    [st |-> "not_started", msg |-> NoBusMsg, idx |-> 0, registered |-> 0,
     late |-> FALSE]
LoopListening == [LoopNotStarted EXCEPT !.st = "listening"]
LoopExited == [LoopNotStarted EXCEPT !.st = "exited"]

\* MessageBus.is_connected; self.redis is set from connect() on.
BusIsConnected == bHealthy

\* What the try body of publish() throws under a fault.
Thrown(fault) ==
    CASE fault = "unserializable" -> "TypeError"
      [] fault = "redis_error" -> "RedisError"
      [] OTHER -> "none"

\* The exception names the json module defines.
JsonExceptions == {"JSONDecodeError"}

\* The except clauses of publish(), tried in order for a thrown exception:
\* the first one names json.JSONEncodeError, and looking that name up is
\* what raises when the module does not define it.
ExceptClauses(thrown) ==
    IF "JSONEncodeError" \notin JsonExceptions THEN "AttributeError"
    ELSE "MessageBusError"

\* What publish() raises.
PublishRaises(healthy, fault) ==
    IF ~healthy THEN "MessageBusError"
    ELSE IF Thrown(fault) = "none" THEN "none"
    ELSE ExceptClauses(Thrown(fault))

\* _connection_healthy after publish(): only the RedisError clause clears it.
HealthyAfterPublish(healthy, fault) ==
    IF healthy /\ Thrown(fault) = "RedisError"
       /\ ExceptClauses(Thrown(fault)) = "MessageBusError"
    THEN FALSE ELSE healthy

\* A dispatch that gives up on a message when a callback raises.
AfterCallbackStopsOnRaise(l, raises, n) ==
    IF raises THEN LoopListening
    ELSE IF l.idx < n THEN [l EXCEPT !.st = "dispatching", !.idx = @ + 1]
    ELSE LoopListening

\* The `for idx, callback in enumerate(...)` loop after callback l.idx
\* returned or raised, n callbacks being in the list by then.
AfterCallback(l, raises, n) ==
    IF l.idx < n THEN [l EXCEPT !.st = "dispatching", !.idx = @ + 1]
    ELSE LoopListening

\* MessageBus.start up to the first `async for` step.
BusStart ==
    /\ bLoop.st = "not_started"
    /\ bRunning' = TRUE
    /\ bLoop' = LoopListening
    /\ UNCHANGED <<bHealthy, bSubscribers, bPending, bInvoked, bSent, bStopped,
                   bRaised>>
    /\ UNCHANGED <<corrVars, cbVars, retryVars, gwVars, connVars, logVars,
                   turnVars>>

\* MessageBus.subscribe(ch, callback), the callbacks numbered as they are
\* registered; a first subscription makes the broker confirm.
BusSubscribe ==
    /\ \E ch \in BusChannels :
         LET cb == 1 + Len(bSubscribers["stt.transcription"])
                     + Len(bSubscribers["llm.response"])
         IN /\ cb <= MaxCallbacks
            /\ bSubscribers' = [bSubscribers EXCEPT ![ch] = Append(@, cb)]
            /\ bPending' = IF bSubscribers[ch] = <<>>
                           THEN Append(bPending, BusMsg("subscribe", 0, ch, TRUE))
                           ELSE bPending
    /\ UNCHANGED <<bRunning, bHealthy, bLoop, bInvoked, bSent, bStopped, bRaised>>
    /\ UNCHANGED <<corrVars, cbVars, retryVars, gwVars, connVars, logVars,
                   turnVars>>

\* MessageBus.publish(ch, message); the broker hands a published message
\* to this bus's pubsub when the channel is subscribed.
BusPublish ==
    /\ bSent < MaxBusMsgs
    /\ \E ch \in BusChannels, fault \in {"none", "unserializable", "redis_error"} :
         /\ bRaised' = [n |-> bRaised.n + 1, fault |-> fault,
                         exc |-> PublishRaises(bHealthy, fault)]
         /\ bHealthy' = HealthyAfterPublish(bHealthy, fault)
         /\ bPending' = IF PublishRaises(bHealthy, fault) = "none"
                            /\ bSubscribers[ch] # <<>>
                         THEN Append(bPending, BusMsg("message", bSent + 1, ch, TRUE))
                         ELSE bPending
    /\ bSent' = bSent + 1
    /\ UNCHANGED <<bRunning, bSubscribers, bLoop, bInvoked, bStopped>>
    /\ UNCHANGED <<corrVars, cbVars, retryVars, gwVars, connVars, logVars,
                   turnVars>>

\* Another client of the broker publishes text that is not JSON on a
\* subscribed channel.
BusForeign ==
    /\ bSent < MaxBusMsgs
    /\ \E ch \in BusChannels :
         /\ bSubscribers[ch] # <<>>
         /\ bPending' = Append(bPending, BusMsg("message", bSent + 1, ch, FALSE))
    /\ bSent' = bSent + 1
    /\ UNCHANGED <<bRunning, bHealthy, bSubscribers, bLoop, bInvoked, bStopped,
                   bRaised>>
    /\ UNCHANGED <<corrVars, cbVars, retryVars, gwVars, connVars, logVars,
                   turnVars>>

\* MessageBus.health_check: redis.ping() answers or raises.
BusHealthCheck ==
    /\ \E pong \in BOOLEAN : bHealthy' = pong
    /\ bHealthy' # bHealthy
    /\ UNCHANGED <<bRunning, bSubscribers, bPending, bLoop, bInvoked, bSent,
                   bStopped, bRaised>>
    /\ UNCHANGED <<corrVars, cbVars, retryVars, gwVars, connVars, logVars,
                   turnVars>>

\* One step of `async for message in self.pubsub.listen()`: the stop test,
\* the type test, json.loads, the subscribers lookup.
BusReceive ==
    /\ bLoop.st = "listening"
    /\ bPending # <<>>
    /\ LET m == Head(bPending) IN
         bLoop' = IF ~bRunning THEN LoopExited
                  ELSE IF m.type # "message" \/ ~m.decodable
                          \/ bSubscribers[m.channel] = <<>>
                       THEN LoopListening
                       ELSE [st |-> "dispatching", msg |-> m, idx |-> 1,
                             registered |-> Len(bSubscribers[m.channel]),
                             late |-> bStopped]
    /\ bPending' = Tail(bPending)
    /\ UNCHANGED <<bRunning, bHealthy, bSubscribers, bInvoked, bSent, bStopped,
                   bRaised>>
    /\ UNCHANGED <<corrVars, cbVars, retryVars, gwVars, connVars, logVars,
                   turnVars>>

\* `await callback(data)` is entered for callback number bLoop.idx.
BusInvoke ==
    /\ bLoop.st = "dispatching"
    /\ bInvoked' = Append(bInvoked,
                          [callback |-> bSubscribers[bLoop.msg.channel][bLoop.idx],
                           seq |-> bLoop.msg.seq, late |-> bLoop.late,
                           raised |-> FALSE])
    /\ bLoop' = [bLoop EXCEPT !.st = "in_callback"]
    /\ UNCHANGED <<bRunning, bHealthy, bSubscribers, bPending, bSent, bStopped,
                   bRaised>>
    /\ UNCHANGED <<corrVars, cbVars, retryVars, gwVars, connVars, logVars,
                   turnVars>>

\* The callback returns or raises an Exception, which the loop logs.
BusCallbackEnds ==
    /\ bLoop.st = "in_callback"
    /\ \E raises \in BOOLEAN :
         /\ bLoop' = AfterCallback(bLoop, raises,
                                   Len(bSubscribers[bLoop.msg.channel]))
         /\ bInvoked' = [bInvoked EXCEPT ![Len(bInvoked)].raised = raises]
    /\ UNCHANGED <<bRunning, bHealthy, bSubscribers, bPending, bSent, bStopped,
                   bRaised>>
    /\ UNCHANGED <<corrVars, cbVars, retryVars, gwVars, connVars, logVars,
                   turnVars>>

\* MessageBus.stop on a running bus (a no-op otherwise).
BusStop ==
    /\ bRunning
    /\ bRunning' = FALSE
    /\ bStopped' = TRUE
    /\ UNCHANGED <<bHealthy, bSubscribers, bPending, bLoop, bInvoked, bSent,
                   bRaised>>
    /\ UNCHANGED <<corrVars, cbVars, retryVars, gwVars, connVars, logVars,
                   turnVars>>

InitBus ==
    /\ bRunning = FALSE
    /\ bHealthy = TRUE
    /\ bSubscribers = [ch \in BusChannels |-> <<>>]
    /\ bPending = <<>>
    /\ bLoop = LoopNotStarted
    /\ bInvoked = <<>>
    /\ bSent = 0
    /\ bStopped = FALSE
    /\ bRaised = [n |-> 0, fault |-> "none", exc |-> "none"]

\* ------------------------------------------------- LLMEngine: one turn

\* data.get("text", ""), and what .strip() leaves of it.
Texts == {"", " ", "what time is it"}
Strip(text) == IF text = " " THEN "" ELSE text

\* What one `await self.client.chat(...)` does: it answers with text, it
\* answers with n tool calls, or it raises.
ChatOutcomes ==
    {[kind |-> "reply", n |-> 0]}
      \cup {[kind |-> "tool_calls", n |-> n] : n \in 1..MaxToolCalls}
      \cup {[kind |-> k, n |-> 0] : k \in {"ResponseError", "TimeoutError", "KeyError"}}

\* What `await self._execute_tool_call(...)` does: it returns the result or
\* raises LLMEngineError (tool error, timeout, or any wrapped exception).
ToolOutcomes == {"none", "LLMEngineError"}

\* A loop that runs while iteration <= max_tool_iterations.
LoopContinuesOneMore(i) == i <= MaxToolIterations

\* `while iteration < max_tool_iterations`
LoopContinues(i) == i < MaxToolIterations

\* `except LLMEngineError` around one tool call.
CaughtInLoop(exc) == exc = "LLMEngineError"

\* messages.append({"role": "tool", ...}) for a tool call that returned /
\* raised.
AppendToolMessage(msgs, exc) ==
    IF exc = "none" THEN [msgs EXCEPT !.results = @ + 1]
    ELSE [msgs EXCEPT !.errors = @ + 1]

NoToolMessages == [results |-> 0, errors |-> 0]

\* The except clauses of _generate_response: what leaves it for exc.
GenerateRaises(exc) ==
    IF exc \in {"CircuitBreakerOpenError", "RetryExhaustedError"}
    THEN exc ELSE "LLMEngineError"

\* A handler that has except clauses for the two named errors only.
HandlerCatchesNamed(exc) ==
    exc \in {"CircuitBreakerOpenError", "RetryExhaustedError"}

\* The except clauses of _handle_transcription, the last being
\* `except Exception`.
HandlerCatches(exc) == IsInstance(exc, "Exception")

\* The llm.response the handler publishes for an exception it caught.
Fallback(exc) ==
    CASE exc = "CircuitBreakerOpenError" -> "fallback_circuit_open"
      [] exc = "RetryExhaustedError" -> "fallback_retries_exhausted"
      [] OTHER -> "fallback_error"

\* The handler returns after publishing `kind` on "llm.response".
Respond(kind) ==
    /\ tResponses' = Append(tResponses, kind)
    /\ tRaised' = "none"
    /\ tPc' = "returned"

\* Exception exc leaves the loop of _generate_response and reaches the
\* handler.
Abort(exc) ==
    IF HandlerCatches(GenerateRaises(exc))
    THEN Respond(Fallback(GenerateRaises(exc)))
    ELSE /\ tResponses' = tResponses
         /\ tRaised' = GenerateRaises(exc)
         /\ tPc' = "returned"

\* The breaker's fields take the values of b; its ghosts stay.
SetEngineBreaker(b) ==
    /\ SetBreaker(b)
    /\ UNCHANGED <<cbNow, inFlight, streak, lastEvent, callSeq, guard>>

\* _handle_transcription up to _generate_response's loop.
TurnBegin ==
    /\ tPc \in {"idle", "returned"}
    /\ turns < MaxTurns
    /\ turns' = turns + 1
    /\ \E text \in Texts :
         /\ tText' = text
         /\ tPc' = IF Strip(text) = "" THEN "returned" ELSE "loop"
    /\ iteration' = 0
    /\ tAttempt' = 0
    /\ toolsLeft' = 0
    /\ modelCalls' = 0
    /\ chatCalls' = 0
    /\ toolMsgs' = NoToolMessages
    /\ tResponses' = <<>>
    /\ tRaised' = "none"
    /\ UNCHANGED <<corrVars, cbVars, retryVars, gwVars, connVars, logVars,
                   busVars>>

\* The test of the while loop: another model call, or the else branch
\* with the apology, which the handler publishes as the response.
TurnLoop ==
    /\ tPc = "loop"
    /\ IF LoopContinues(iteration)
       THEN /\ iteration' = iteration + 1
            /\ modelCalls' = modelCalls + 1
            /\ tAttempt' = 0
            /\ tPc' = "attempt"
            /\ UNCHANGED <<tResponses, tRaised>>
       ELSE /\ Respond("apology_max_iterations")
            /\ UNCHANGED <<iteration, modelCalls, tAttempt>>
    /\ UNCHANGED <<toolsLeft, chatCalls, toolMsgs, tText, turns>>
    /\ UNCHANGED <<corrVars, cbVars, retryVars, gwVars, connVars, logVars,
                   busVars>>

\* One run of the body of _call_ollama_with_retry inside the retry
\* wrapper: the is_open test, client.chat, the breaker's bookkeeping, and
\* what the wrapper and _generate_response do with the outcome.
TurnAttempt ==
    /\ tPc = "attempt"
    /\ IF cbState = "OPEN"
       THEN /\ Abort("CircuitBreakerOpenError")
            /\ UNCHANGED <<cbVars, chatCalls, toolsLeft>>
       ELSE /\ chatCalls' = chatCalls + 1
            /\ \E out \in ChatOutcomes :
                 CASE out.kind = "reply" ->
                        /\ SetEngineBreaker(OnSuccess(Breaker))
                        /\ Respond("reply")
                        /\ toolsLeft' = 0
                   [] out.kind = "tool_calls" ->
                        /\ SetEngineBreaker(OnSuccess(Breaker))
                        /\ toolsLeft' = out.n
                        /\ tPc' = "tools"
                        /\ UNCHANGED <<tResponses, tRaised>>
                   [] OTHER ->
                        /\ SetEngineBreaker(OnFailure(Breaker, cbNow))
                        /\ toolsLeft' = 0
                        /\ IF ~Caught(EngineRetry, out.kind)
                           THEN Abort(out.kind)
                           ELSE IF LastAttempt(EngineRetry, tAttempt)
                                THEN Abort("RetryExhaustedError")
                                ELSE /\ tPc' = "sleeping"
                                     /\ UNCHANGED <<tResponses, tRaised>>
    /\ UNCHANGED <<iteration, tAttempt, modelCalls, toolMsgs, tText, turns>>
    /\ UNCHANGED <<corrVars, retryVars, gwVars, connVars, logVars, busVars>>

\* The wrapper's asyncio.sleep(delay) ends; the next attempt.
TurnSleepEnds ==
    /\ tPc = "sleeping"
    /\ tAttempt' = tAttempt + 1
    /\ tPc' = "attempt"
    /\ UNCHANGED <<iteration, toolsLeft, modelCalls, chatCalls, toolMsgs,
                   tResponses, tRaised, tText, turns>>
    /\ UNCHANGED <<corrVars, cbVars, retryVars, gwVars, connVars, logVars,
                   busVars>>

\* One tool call of the reply: its result or its error becomes a "tool"
\* message; after the last one the loop goes on.
TurnTool ==
    /\ tPc = "tools"
    /\ \E exc \in ToolOutcomes :
         IF exc = "none" \/ CaughtInLoop(exc)
         THEN /\ toolMsgs' = AppendToolMessage(toolMsgs, exc)
              /\ toolsLeft' = toolsLeft - 1
              /\ tPc' = IF toolsLeft = 1 THEN "loop" ELSE "tools"
              /\ UNCHANGED <<tResponses, tRaised>>
         ELSE /\ Abort(exc)
              /\ UNCHANGED <<toolMsgs, toolsLeft>>
    /\ UNCHANGED <<iteration, tAttempt, modelCalls, chatCalls, tText, turns>>
    /\ UNCHANGED <<corrVars, cbVars, retryVars, gwVars, connVars, logVars,
                   busVars>>

InitTurn ==
    /\ tPc = "idle"
    /\ iteration = 0
    /\ tAttempt = 0
    /\ toolsLeft = 0
    /\ modelCalls = 0
    /\ chatCalls = 0
    /\ toolMsgs = NoToolMessages
    /\ tResponses = <<>>
    /\ tRaised = "none"
    /\ tText = ""
    /\ turns = 0

InitRest == InitConn /\ InitLog /\ InitBus /\ InitTurn

\* ------------------------------------------------------------------ Init

InitSubscribers ==
    [ch \in {ExecuteCh, ResultCh, TranscriptionCh, TtsGenerateCh} |->
       CASE ch = ExecuteCh -> <<GatewayCb, GuiExecuteCb>>
         [] ch = ResultCh -> <<GuiResultCb>>
         [] ch = TranscriptionCh -> <<TranscriptionCb>>
         [] OTHER -> <<TtsRequestCb>>]

InitCorr ==
    /\ now = 0
    /\ busQueue = <<>>
    /\ subscribers = InitSubscribers
    /\ pubsubChannels = DOMAIN InitSubscribers
    /\ listener = ListenerIdle
    /\ call = [c \in Calls |-> IdleCall]
    /\ pending_tool_results = [k \in {} |-> NoMsg]
    /\ tool_registry = [t \in ToolNames |->
                          IF t = "text_to_speech" THEN "elevenlabs" ELSE "weather"]
    /\ connected \in {{"elevenlabs", "weather"}, {"weather"}}
    /\ gw = GwIdle
    /\ slowFor = {}
    /\ lateSeen = "none"

InitCB ==
    /\ cbState = "CLOSED"
    /\ failureCount = 0
    /\ successCount = 0
    /\ lastFailureTime = None
    /\ cbNow = 0
    /\ inFlight = 0
    /\ openedAt = -1
    /\ streak = 0
    /\ lastEvent = "none"
    /\ callSeq = 0

Init ==
    /\ InitCorr
    /\ InitCB
    /\ guard = "protect"
    /\ InitRetry(EngineRetry)
    /\ InitGw(<<>>)
    /\ InitRest

Next ==
    \/ StartDirectLLM
    \/ StartDirectTTS
    \/ EnvPublish
    \/ \E c \in Calls : TTSSubscribe(c)
    \/ \E c \in Calls : TTSSubscribed(c)
    \/ \E c \in Calls : TTSReturn(c)
    \/ \E c \in Calls : TTSTimeout(c)
    \/ \E c \in Calls : Cancel(c)
    \/ \E c \in Calls : LLMPollLoop(c)
    \/ DispatchDropped
    \/ DispatchResult
    \/ DispatchExecute
    \/ ProviderReturn
    \/ DispatchTranscription
    \/ DispatchTtsRequest
    \/ Tick

Spec == Init /\ [][Next]_vars

\* ----------------------------------------------------- correlation claims

InProgress(c) == call[c].pc \notin {"idle", "done"}

\* Call c has a waiting slot: its result_handler is subscribed (TTS) or its
\* id is a key of _pending_tool_results (engine).
Registered(c) ==
    \/ ResultHandler(c) \in ResultHandlers
    \/ call[c].rid \in DOMAIN pending_tool_results

\* The waiting slots that exist.
PendingEntries ==
    Cardinality({i \in DOMAIN (IF ResultCh \in DOMAIN subscribers
                               THEN subscribers[ResultCh] ELSE <<>>) :
                   subscribers[ResultCh][i].kind = "result_handler"})
    + Cardinality(DOMAIN pending_tool_results)

\* The listener takes a message off the queue.
Dispatch ==
    \/ DispatchDropped
    \/ DispatchResult
    \/ DispatchExecute
    \/ DispatchTranscription
    \/ DispatchTtsRequest

\* C1: an engine tool call for a tool of the gateway's registry, whose
\* provider is connected and was never slow for it, and which was not
\* cancelled, ends with the gateway's result and not with its timeout.
C1_ToolCallReturnsResult ==
    \A c \in Calls :
       (/\ call[c].svc = "llm"
        /\ call[c].pc = "done"
        /\ call[c].outcome # "cancelled"
        /\ Routable(call[c].tool)
        /\ c \notin slowFor)
       => call[c].outcome = "result"

\* C2: a call resolves only with the result of its own request.
C2_ResolvesWithOwnResult ==
    \A c \in Calls : call[c].got # NoMsg => call[c].got.src = c

\* C3: while a handler run by the bus listener is suspended awaiting a
\* correlated result, the listener can take the next queued message.
C3_BusDispatchesDuringHandler ==
    (/\ listener.st = "handler"
     /\ call[listener.call].pc \in {"waiting", "polling"}
     /\ busQueue # <<>>)
    => ENABLED Dispatch

\* C4: a call that has ended has no waiting slot; a slot exists only while
\* its call waits for the result; there are never more slots than calls in
\* progress.
C4_NoEntryAfterEnd ==
    /\ \A c \in Calls : call[c].pc = "done" => ~Registered(c)
    /\ \A c \in Calls : Registered(c) => call[c].pc = "waiting"
    /\ PendingEntries <= Cardinality({c \in Calls : InProgress(c)})

\* Two calls that had a slot have ended, one by its result and one by its
\* timeout.
C4_Witness ==
    \E c, d \in Calls :
       /\ call[c].svc = "tts" /\ call[c].pc = "done"
       /\ call[c].outcome = "result"
       /\ call[d].svc = "tts" /\ call[d].pc = "done"
       /\ call[d].outcome = "timeout"

\* C5: when the listener takes a result whose request is over, no call
\* changes (none completes, none fails), no waiting slot appears and the
\* listener goes on to the next message.
C5_LateResultDiscarded ==
    [][(/\ CanDispatch
        /\ LateResult(Head(busQueue))
        /\ busQueue' = Tail(busQueue))
       => /\ call' = call
          /\ subscribers' = subscribers
          /\ pending_tool_results' = pending_tool_results
          /\ listener' = ListenerIdle]_vars

\* The result of a request that had timed out was handed to the
\* result_handler of a call that waits for another request.
C5_Witness ==
    /\ lateSeen = "handled"
    /\ \E c \in Calls : call[c].outcome = "timeout"

\* C6: from the publication of its request on, a call in progress has its
\* waiting slot.
C6_RegisteredBeforePublish ==
    \A c \in Calls : InProgress(c) => Registered(c)

\* C7: a call that waits for its result keeps its subscription to the
\* result topic whatever the other calls do.
C7_SubscriptionKept ==
    \A c \in Calls :
       call[c].pc = "waiting" => ResultHandler(c) \in ResultHandlers

\* A breaker guarding calls through protect(), or the engine's
\* ollama_breaker guarding client.chat.
CBInit ==
    /\ InitCorr
    /\ InitCB
    /\ guard \in {"protect", "engine"}
    /\ InitRetry(EngineRetry)
    /\ InitGw(<<>>)
    /\ InitRest

CBNext ==
    \/ CBCall
    \/ EngineCall
    \/ CBSuccess
    \/ CBFailure
    \/ CBUnexpected
    \/ CBReset
    \/ CBTick

CBSpec == CBInit /\ [][CBNext]_vars

\* ------------------------------------------------- circuit breaker claims

\* A call enters the guard in this step.
CallMade == callSeq' # callSeq

\* C8: starting from CLOSED, a failed call leaves the breaker OPEN exactly
\* when it is the failure_threshold-th failure in a row (the failure
\* counter equals the number of consecutive failures) and CLOSED when it is
\* an earlier one; a success while CLOSED puts the failure counter at zero.
C8_OpensAtThreshold ==
    [][/\ (cbState = "CLOSED" /\ lastEvent' = "failure" /\ inFlight' < inFlight)
            => /\ failureCount' = streak'
               /\ cbState' = IF streak' = FailureThreshold
                             THEN "OPEN" ELSE "CLOSED"
       /\ (cbState = "CLOSED" /\ lastEvent' = "success" /\ inFlight' < inFlight)
            => /\ failureCount' = 0
               /\ cbState' = "CLOSED"]_vars

\* The breaker has just opened on its failure_threshold-th failure in a row.
C8_Witness ==
    /\ cbState = "OPEN"
    /\ lastEvent = "failure"
    /\ openedAt = cbNow
    /\ streak = FailureThreshold
    /\ failureCount = FailureThreshold

\* C9: while OPEN and less than recovery_timeout after the breaker opened,
\* a call is rejected with the circuit-open error, the wrapped operation is
\* not invoked, and state, counters and last-failure time stay as they are.
C9_OpenRejects ==
    [][(cbState = "OPEN" /\ cbNow - openedAt < RecoveryTicks /\ CallMade)
          => /\ lastEvent' = "rejected"
             /\ inFlight' = inFlight
             /\ UNCHANGED <<cbState, failureCount, successCount,
                            lastFailureTime>>]_vars

\* A call has just been rejected inside the open period, while another call
\* is still suspended in the wrapped operation.
C9_Witness ==
    /\ cbState = "OPEN"
    /\ lastEvent = "rejected"
    /\ cbNow - openedAt < RecoveryTicks
    /\ inFlight > 0

\* C10: when the breaker is OPEN and at least recovery_timeout has passed
\* since it opened, a call through protect moves it to HALF_OPEN and the
\* wrapped operation is invoked.
C10_ProbeAfterRecovery ==
    [][(guard = "protect" /\ cbState = "OPEN"
          /\ cbNow - openedAt >= RecoveryTicks /\ CallMade)
          => /\ cbState' = "HALF_OPEN"
             /\ inFlight' = inFlight + 1]_vars

\* C11: once the engine's breaker is OPEN and recovery_timeout has passed
\* since its last recorded failure, a model call moves it to HALF_OPEN and
\* client.chat is invoked.
C11_EngineProbesAfterRecovery ==
    [][(guard = "engine" /\ cbState = "OPEN"
          /\ cbNow - lastFailureTime >= RecoveryTicks /\ CallMade)
          => /\ cbState' = "HALF_OPEN"
             /\ inFlight' = inFlight + 1]_vars

\* The wrapped operation returns in this step.
SuccessStep == lastEvent' \in {"success", "closed"} /\ inFlight' < inFlight

\* C12: the breaker enters HALF_OPEN with no success counted; a success in
\* HALF_OPEN closes it exactly when it is the success_threshold-th, with
\* both counters at zero, and otherwise is counted and leaves it HALF_OPEN;
\* short of a manual reset nothing else closes a HALF_OPEN breaker.
C12_ClosesAfterTwoSuccesses ==
    [][/\ (cbState # "HALF_OPEN" /\ cbState' = "HALF_OPEN") => successCount' = 0
       /\ (cbState = "HALF_OPEN" /\ SuccessStep)
            => IF successCount + 1 = SuccessThreshold
               THEN /\ cbState' = "CLOSED"
                    /\ failureCount' = 0
                    /\ successCount' = 0
               ELSE /\ cbState' = "HALF_OPEN"
                    /\ successCount' = successCount + 1
                    /\ successCount' < SuccessThreshold
       /\ (cbState = "HALF_OPEN" /\ cbState' = "CLOSED" /\ lastEvent' # "reset")
            => /\ SuccessStep
               /\ successCount + 1 = SuccessThreshold]_vars

\* The second success in a row has just closed a HALF_OPEN breaker.
C12_Witness ==
    /\ lastEvent = "closed"
    /\ cbState = "CLOSED"
    /\ failureCount = 0
    /\ successCount = 0

\* The wrapped operation raises a counted exception in this step.
FailureStep == lastEvent' \in {"failure", "reopened"} /\ inFlight' < inFlight

\* C13: a failure while HALF_OPEN leaves the breaker OPEN with no success
\* counted and the open period starting at that failure; a call made less
\* than recovery_timeout after the breaker (re)opened is rejected and the
\* wrapped operation is not invoked.
C13_FailedProbeReopens ==
    [][/\ (cbState = "HALF_OPEN" /\ FailureStep)
            => /\ cbState' = "OPEN"
               /\ successCount' = 0
               /\ lastFailureTime' = cbNow
               /\ openedAt' = cbNow
       /\ (cbState = "OPEN" /\ cbNow - openedAt < RecoveryTicks /\ CallMade)
            => /\ lastEvent' = "rejected"
               /\ inFlight' = inFlight
               /\ cbState' = "OPEN"]_vars

\* A failure in HALF_OPEN has just reopened the breaker.
C13_Witness ==
    /\ lastEvent = "reopened"
    /\ cbState = "OPEN"
    /\ successCount = 0
    /\ openedAt = cbNow

\* C14: while the breaker is OPEN, the time its recovery check counts from
\* is the time it opened, whatever calls admitted earlier do meanwhile.
C14_OpenedAtNotMoved ==
    cbState = "OPEN" => lastFailureTime = openedAt

CircuitStates == {"CLOSED", "OPEN", "HALF_OPEN"}

\* The edges of the breaker's state machine.
Edges ==
    {<<"CLOSED", "OPEN">>, <<"OPEN", "HALF_OPEN">>,
     <<"HALF_OPEN", "CLOSED">>, <<"HALF_OPEN", "OPEN">>}

\* C15 as stated: the breaker has one of its three states and every change
\* of its state follows an edge of the state machine.
C15_OnlyEdges ==
    [][/\ cbState \in CircuitStates
       /\ cbState' # cbState => <<cbState, cbState'>> \in Edges]_vars

\* C15 with the manual reset set apart: every change of state made by a
\* call or its outcome follows an edge, and reset() leaves the breaker
\* CLOSED with its counters at zero from whatever state it was in.
C15_OnlyEdgesOrReset ==
    [][/\ cbState \in CircuitStates
       /\ (cbState' # cbState /\ lastEvent' # "reset")
            => <<cbState, cbState'>> \in Edges
       /\ (cbState' # cbState /\ lastEvent' = "reset")
            => /\ cbState' = "CLOSED"
               /\ failureCount' = 0
               /\ successCount' = 0
               /\ lastFailureTime' = None]_vars

\* The breaker opened at this clock reading and has been reset since.
C15_Witness ==
    /\ lastEvent = "reset"
    /\ cbState = "CLOSED"
    /\ openedAt = cbNow
    /\ lastFailureTime = None

\* ------------------------------------------------------------ retry claims

\* One call of a retry wrapper, for every configuration.
RetryInit ==
    /\ InitCorr
    /\ InitCB
    /\ connected = {"elevenlabs", "weather"}
    /\ guard = "protect"
    /\ \E c \in Configs : InitRetry(c)
    /\ InitGw(<<>>)
    /\ InitRest

RetryNext ==
    \/ AttemptReturns
    \/ AttemptFailsRetryable
    \/ AttemptExhausted
    \/ AttemptPropagates
    \/ SleepEnds

RetrySpec == RetryInit /\ [][RetryNext]_vars

\* C16: an invocation that raises the circuit-open error is the last one:
\* the wrapper raises that error, having slept only after the attempts
\* before it.
C16_CircuitOpenNotRetried ==
    \A i \in DOMAIN outcomes :
       outcomes[i] = "CircuitBreakerOpenError"
       => /\ i = Len(outcomes)
          /\ rPc = "raised"
          /\ raised = "CircuitBreakerOpenError"
          /\ Len(delays) = i - 1

\* C17: the operation is invoked at most max_retries + 1 times; the wrapper
\* gives up with RetryExhaustedError after exactly max_retries + 1 caught
\* failures and not earlier; a successful invocation is the last one and
\* the wrapper returns its value.
C17_AttemptsBounded ==
    /\ Len(outcomes) <= cfg.max_retries + 1
    /\ raised = "RetryExhaustedError" <=>
          /\ Len(outcomes) = cfg.max_retries + 1
          /\ outcomes[Len(outcomes)] \notin {"ok", raised}
    /\ rPc = "sleeping" => Len(outcomes) <= cfg.max_retries
    /\ \A i \in DOMAIN outcomes :
          outcomes[i] = "ok" => /\ i = Len(outcomes)
                                /\ rPc = "returned"
                                /\ returned = i

\* Every attempt failed and the wrapper gave up after max_retries + 1 of
\* them, with at least two retries.
C17_Witness ==
    /\ raised = "RetryExhaustedError"
    /\ cfg.max_retries >= 2
    /\ Len(outcomes) = cfg.max_retries + 1
    /\ Len(delays) = cfg.max_retries

\* C18: with jitter, the n-th delay slept is at least half the unjittered
\* delay of that retry and at most that delay, hence at most max_delay.
C18_JitterWithinHalfToFull ==
    cfg.jitter =>
       \A n \in DOMAIN delays :
          LET full == Min(cfg.base_delay * Pow(cfg.exponential_base, n - 1),
                          cfg.max_delay) * UnitsPerSecond
          IN /\ 2 * delays[n] >= full
             /\ delays[n] <= full
             /\ delays[n] <= cfg.max_delay * UnitsPerSecond

\* C19: without jitter the n-th delay slept is
\* min(base_delay * exponential_base^(n-1), max_delay); with max_retries 3,
\* base_delay 1, exponential_base 2 and max_delay 60 the three delays are
\* 1, 2 and 4 seconds.
C19_BackoffDelays ==
    ~cfg.jitter =>
       /\ \A n \in DOMAIN delays :
             delays[n] = Min(cfg.base_delay * Pow(cfg.exponential_base, n - 1),
                             cfg.max_delay) * UnitsPerSecond
       /\ (/\ cfg.max_retries = 3 /\ cfg.base_delay = 1
           /\ cfg.exponential_base = 2 /\ cfg.max_delay = 60
           /\ Len(delays) = 3)
          => delays = <<1 * UnitsPerSecond, 2 * UnitsPerSecond,
                        4 * UnitsPerSecond>>

\* The wrapper of the example has slept its three delays, without jitter.
C19_Witness ==
    /\ ~cfg.jitter
    /\ cfg.max_retries = 3 /\ cfg.base_delay = 1
    /\ cfg.exponential_base = 2 /\ cfg.max_delay = 60
    /\ Len(delays) = 3
    /\ rPc = "calling"

\* A kind outside the allow-list c.exceptions, spelt out per allow-list.
Unlisted(c, kind) ==
    \/ kind = "CancelledError"
    \/ /\ c.exceptions = EngineExceptions
       /\ kind \in {"ValueError", "CircuitBreakerOpenError"}

\* C20: an invocation that raises a kind outside the allow-list is the last
\* one: the wrapper raises that same error, and neither a sleep nor a call
\* of on_retry follows it.
C20_UnlistedPropagates ==
    \A i \in DOMAIN outcomes :
       Unlisted(cfg, outcomes[i])
       => /\ i = Len(outcomes)
          /\ rPc = "raised"
          /\ raised = outcomes[i]
          /\ Len(delays) = i - 1
          /\ Len(onRetryCalls) = IF cfg.on_retry THEN i - 1 ELSE 0

\* After a retried failure, with on_retry configured, an invocation raised
\* an error outside the allow-list and the wrapper raised it.
C20_Witness ==
    /\ cfg.on_retry
    /\ rPc = "raised"
    /\ raised = "ValueError"
    /\ Len(outcomes) = 2
    /\ Len(delays) = 1
    /\ onRetryCalls = <<1>>

\* C21: when the last of the max_retries + 1 attempts fails with an error
\* the allow-list catches, the wrapper raises RetryExhaustedError whose
\* cause is that last error, and it has slept max_retries times: once after
\* each earlier attempt and not after the last.
C21_ExhaustedWrapsLastError ==
    LET n == Len(outcomes) IN
    /\ (n = cfg.max_retries + 1 /\ outcomes[n] # "ok" /\ Caught(cfg, outcomes[n]))
       => /\ rPc = "raised"
          /\ raised = "RetryExhaustedError"
    /\ raised = "RetryExhaustedError"
       => /\ cause = outcomes[n]
          /\ Len(delays) = cfg.max_retries
          /\ Len(delays) = n - 1

\* The wrapper gave up after a first attempt that failed in one way and a
\* last attempt that failed in another; the cause is the error of the last.
C21_Witness ==
    /\ raised = "RetryExhaustedError"
    /\ cfg.max_retries >= 1
    /\ outcomes[1] = "ValueError"
    /\ cause = "ConnectionError"

\* ---------------------------------------------------------- gateway claims

\* The bus connected and no service started; the gateway initialized.
GwInit ==
    /\ now = 0
    /\ busQueue = <<>>
    /\ subscribers = [ch \in {} |-> <<>>]
    /\ pubsubChannels = {}
    /\ listener = ListenerIdle
    /\ call = [c \in Calls |-> IdleCall]
    /\ pending_tool_results = [k \in {} |-> NoMsg]
    /\ tool_registry = EmptyRegistry
    /\ connected = {}
    /\ gw = GwIdle
    /\ slowFor = {}
    /\ lateSeen = "none"
    /\ InitCB
    /\ guard = "protect"
    /\ InitRetry(EngineRetry)
    /\ \E order \in ServerOrders : InitGw(order)
    /\ InitRest

GwNext ==
    \/ GwStart
    \/ GwStop
    \/ EngineStart
    \/ GwRequest
    \/ GwDispatch
    \/ CallToolReturns

GwSpec == GwInit /\ [][GwNext]_vars

\* The results published for request number n.
ResultsFor(n) == {i \in DOMAIN published : published[i].src = n}

HandlerTakes ==
    /\ CanDispatch
    /\ Head(busQueue).channel = ExecuteCh
    /\ ExecuteCh \in DOMAIN subscribers
    /\ received' # received

\* C23: when the handler takes a request that names a tool the registry
\* does not hold, that step publishes one result for the request with
\* success = FALSE and an error text, and it invokes no provider.
C23_UnknownToolFails ==
    [][(/\ HandlerTakes
        /\ Head(busQueue).tool_name # ""
        /\ Head(busQueue).tool_name \notin DOMAIN tool_registry)
       => /\ Len(published') = Len(published) + 1
          /\ LET r == published'[Len(published')] IN
                /\ r.src = Head(busQueue).src
                /\ r.success = FALSE
                /\ r.error # ""
          /\ invoked' = invoked
          /\ gwHandlers' = gwHandlers]_vars

\* With a provider connected, a request for a tool of a provider that did
\* not connect was answered "not found" and nothing was invoked.
C23_Witness ==
    /\ gwRunning
    /\ connected # {}
    /\ invoked = {}
    /\ \E i \in DOMAIN published :
          /\ published[i].tool_name = "search"
          /\ ~published[i].success
          /\ published[i].error = "Tool not found in registry"

C25_RoutedToOwner ==
    [][/\ \A v \in invoked' \ invoked :
             /\ v.tool \in DOMAIN tool_registry
             /\ v.server = tool_registry[v.tool]
             /\ v.server \in connected
       /\ \A h \in gwHandlers' \ gwHandlers :
             /\ h.server = tool_registry[h.m.tool_name]
             /\ [src |-> h.m.src, tool |-> h.m.tool_name,
                 server |-> h.server] \in invoked'
       /\ Cardinality(invoked' \ invoked) <= 1]_vars

\* Two connected providers list "search"; a request for it was invoked on
\* the one the registry records.
C25_Witness ==
    /\ {"weather", "elevenlabs"} \subseteq connected
    /\ serverTools["weather"] \cap serverTools["elevenlabs"] = {"search"}
    /\ \E v \in invoked :
          /\ v.tool = "search"
          /\ v.server = tool_registry["search"]
          /\ v.server = servers[2]

\* C26: a start() in which some but not all configured providers connect
\* completes: the gateway is running and subscribed, every registry entry
\* belongs to a connected provider, the registry holds exactly the tools
\* the connected providers listed, and the health check says healthy.
C26_PartialStartHealthy ==
    [][(/\ starts' = starts + 1
        /\ connected' \cap Range(servers) # {}
        /\ connected' \cap Range(servers) # Range(servers))
       => /\ gwRunning'
          /\ ExecuteCh \in DOMAIN subscribers'
          /\ \A t \in DOMAIN tool_registry' : tool_registry'[t] \in connected'
          /\ DOMAIN tool_registry' =
                UNION {serverTools'[p] : p \in connected' \cap Range(servers)}
          /\ HealthCheck']_vars

\* Of three configured providers one failed to connect; the gateway runs
\* with the tools of the other two and reports healthy.
C26_Witness ==
    /\ gwRunning
    /\ starts = 1
    /\ Len(servers) = 3
    /\ connected = {"weather", "filesystem"}
    /\ DOMAIN tool_registry = {"get_weather", "search", "read_file"}
    /\ HealthCheck

\* A registry message is waiting for the listener.
RegistryPending ==
    \E i \in DOMAIN busQueue :
       busQueue[i].channel \in {RegistryCh, EngineRegistryCh}

\* C27: once the gateway has published its registry with the engine
\* already started, and the listener has nothing of it left to deliver,
\* the engine's tool list is the published registry.
C27_EngineToolsFollowRegistry ==
    (/\ registryLog # <<>>
     /\ registryLog[1].engine
     /\ ~RegistryPending
     /\ listener = ListenerIdle)
    => available_tools = registryLog[1].tools

\* C28: every tool of the registry is recorded for a provider that is
\* connected.
C28_RegistryOwnersConnected ==
    \A t \in DOMAIN tool_registry : tool_registry[t] \in connected

InFlightOn(p) == {h \in gwHandlers : h.server = p}

\* C30: at most one invocation is in flight on a provider connection.
C30_OneInvocationPerConnection ==
    \A p \in Providers : Cardinality(InFlightOn(p)) <= 1

\* A second request for the provider of an invocation in flight waits in
\* the queue.
C30_Witness ==
    /\ \E h \in gwHandlers :
          /\ busQueue # <<>>
          /\ Head(busQueue).channel = ExecuteCh
          /\ Head(busQueue).tool_name \in DOMAIN tool_registry
          /\ tool_registry[Head(busQueue).tool_name] = h.server
    /\ listener # ListenerIdle

\* ------------------------------------- circuit breaker claims, continued

\* C34: while the breaker is HALF_OPEN and the probe that put it there is
\* still suspended in the wrapped operation, a further call through protect
\* is not passed on to the wrapped operation.
C34_SingleProbe ==
    [][(cbState = "HALF_OPEN" /\ lastEvent = "probe" /\ inFlight = 1
          /\ CallMade)
          => inFlight' = inFlight]_vars

\* C35: an exception of the wrapped call that is not of the breaker's
\* expected_exception kind leaves state, failure counter, success counter
\* and last-failure time as they were, whatever the state.
C35_UnexpectedLeavesBreaker ==
    [][(guard = "protect" /\ lastEvent' = "unexpected" /\ inFlight' < inFlight)
          => UNCHANGED <<cbState, failureCount, successCount,
                         lastFailureTime>>]_vars

\* A call admitted as a probe has raised an exception the breaker does not
\* count: the breaker is still HALF_OPEN with its counters in place.
C35_Witness ==
    /\ guard = "protect"
    /\ lastEvent = "unexpected"
    /\ cbState = "HALF_OPEN"
    /\ failureCount >= FailureThreshold
    /\ inFlight = 0

\* C40: whenever the breaker is CLOSED its failure counter is below
\* failure_threshold.
C40_ClosedBelowThreshold ==
    cbState = "CLOSED" => failureCount < FailureThreshold

\* A breaker that has been open is CLOSED again and one failure short of
\* opening.
C40_Witness ==
    /\ cbState = "CLOSED"
    /\ openedAt # None
    /\ failureCount = FailureThreshold - 1

\* ------------------------------------------------------ connection claims

ConnInit ==
    /\ InitCorr
    /\ InitCB
    /\ guard = "protect"
    /\ InitRetry(EngineRetry)
    /\ InitGw(<<>>)
    /\ InitRest
    /\ connected = {"elevenlabs", "weather"}

ConnNext ==
    \/ ConnConnect
    \/ ConnDiscover
    \/ ConnDisconnect

ConnSpec == ConnInit /\ [][ConnNext]_vars

\* C33: a call of disconnect(), the first or a repeated one, on a connection
\* that connected or never did, raises nothing and leaves the connection
\* not connected, without a session and with an empty tool catalogue.
C33_DisconnectIdempotent ==
    [][(connOp' = "disconnect" /\ connCalls' = connCalls + 1)
          => /\ connRaised' = "none"
             /\ ~IsConnected(Connection')
             /\ session' = NoSession
             /\ connTools' = {}]_vars

\* ----------------------------------------------- gateway claims, continued

\* Providers p and q are both connected and both listed tool t in the
\* discovery of the running gateway, q after p.
Collide(p, q, t) ==
    /\ gwRunning
    /\ {p, q} \subseteq connected
    /\ t \in serverTools[p] \cap serverTools[q]
    /\ \E i, j \in 1..Len(servers) : i < j /\ servers[i] = p /\ servers[j] = q

\* The registry entry of t names the provider discovered last.
LastWins(t) ==
    \A p, q \in Providers : Collide(p, q, t) => tool_registry[t] # p

\* C39: when two connected providers list a tool of the same name, the
\* registry maps the name to the provider discovered last, and the
\* collision was logged as a warning.
C39_CollisionLastWinsAndLogged ==
    \A p, q \in Providers : \A t \in Catalogue(p) :
       Collide(p, q, t)
          => /\ LastWins(t)
             /\ \E w \in gwWarnings : w.kind = "collision" /\ w.about = t

\* --------------------------------------------------- message bus claims

BusInit ==
    /\ InitCorr
    /\ InitCB
    /\ guard = "protect"
    /\ InitRetry(EngineRetry)
    /\ InitGw(<<>>)
    /\ InitRest
    /\ connected = {"elevenlabs", "weather"}

BusNext ==
    \/ BusStart
    \/ BusSubscribe
    \/ BusPublish
    \/ BusForeign
    \/ BusHealthCheck
    \/ BusReceive
    \/ BusInvoke
    \/ BusCallbackEnds
    \/ BusStop

BusSpec == BusInit /\ [][BusNext]_vars

\* The listener task is scheduled whenever it can take a step; nothing
\* obliges anybody to publish or subscribe.
FairBusSpec ==
    /\ BusSpec
    /\ WF_vars(BusStart)
    /\ WF_vars(BusReceive)
    /\ WF_vars(BusInvoke)
    /\ WF_vars(BusCallbackEnds)

\* publish() is called in this step.
PublishStep == bRaised'.n = bRaised.n + 1

\* C36: a publish() on a connected bus that meets a broker failure or a
\* message that cannot be serialized raises MessageBusError, and after a
\* broker failure is_connected() is False.
C36_PublishRaisesBusError ==
    [][(PublishStep /\ BusIsConnected /\ bRaised'.fault # "none")
          => /\ bRaised'.exc = "MessageBusError"
             /\ bRaised'.fault = "redis_error" => ~BusIsConnected']_vars

\* C37: no callback is invoked for a message that listen() yielded after
\* stop(), and once stop() was called on the running bus the loop of
\* start() eventually exits, also when no further message arrives.
C37_StopEndsListener ==
    /\ [](\A i \in 1..Len(bInvoked) : ~bInvoked[i].late)
    /\ (bStopped ~> bLoop.st = "exited")

\* The callbacks that log records as invoked with message number n, in the
\* order of invocation, from position i on.
RECURSIVE InvokedWith(_, _, _)
InvokedWith(log, n, i) ==
    IF i > Len(log) THEN <<>>
    ELSE IF log[i].seq = n
         THEN <<log[i].callback>> \o InvokedWith(log, n, i + 1)
         ELSE InvokedWith(log, n, i + 1)

\* The loop has finished with the message it was dispatching.
DispatchDone == bLoop.st = "in_callback" /\ bLoop'.st = "listening"

\* C38: when the loop has finished with a message, the callbacks invoked
\* with it are the callbacks of its channel, each once, in the order they
\* were subscribed, whether or not one of them raised; and every callback
\* sees the messages in the order the broker delivered them.
C38_EveryCallbackInOrder ==
    /\ [][DispatchDone
            => /\ InvokedWith(bInvoked', bLoop.msg.seq, 1)
                    = bSubscribers'[bLoop.msg.channel]
               /\ Len(bSubscribers[bLoop.msg.channel]) >= bLoop.registered]_vars
    /\ [](\A i, j \in 1..Len(bInvoked) :
             (i < j /\ bInvoked[i].callback = bInvoked[j].callback)
                => bInvoked[i].seq < bInvoked[j].seq)

\* Two messages went to a channel with two callbacks; the first callback
\* raised on the first message and both callbacks still got both messages.
C38_Witness ==
    /\ bLoop.st = "listening"
    /\ Len(bInvoked) = 4
    /\ bInvoked[1].raised
    /\ bInvoked[1].seq = bInvoked[2].seq
    /\ bInvoked[3].seq = bInvoked[4].seq
    /\ bInvoked[1].callback = bInvoked[3].callback
    /\ bInvoked[2].callback = bInvoked[4].callback
    /\ bInvoked[1].callback # bInvoked[2].callback

\* ----------------------------------------------------- engine turn claims

TurnInit ==
    /\ InitCorr
    /\ InitCB
    /\ guard = "engine"
    /\ InitRetry(EngineRetry)
    /\ InitGw(<<>>)
    /\ InitRest
    /\ connected = {"elevenlabs", "weather"}

TurnNext ==
    \/ TurnBegin
    \/ TurnLoop
    \/ TurnAttempt
    \/ TurnSleepEnds
    \/ TurnTool

TurnSpec == TurnInit /\ [][TurnNext]_vars

\* Every await of a turn completes: client.chat answers or raises, the
\* backoff sleep ends, the wait for a tool result ends (by its result or
\* by its 30 s timeout).  Nothing obliges a transcription to arrive.
FairTurnSpec ==
    /\ TurnSpec
    /\ WF_vars(TurnLoop)
    /\ WF_vars(TurnAttempt)
    /\ WF_vars(TurnSleepEnds)
    /\ WF_vars(TurnTool)

\* The handler is inside a turn.
InTurn == tPc \in {"loop", "attempt", "sleeping", "tools"}

====
